---- MODULE Spec2Model ----
(***************************************************************************)
(* A model of src/post.js of highs-js: the MPS reader (modelFromMps and    *)
(* the chain readName -> readRows -> readColumns -> readRHS -> readRanges  *)
(* -> readBounds) as a state machine over the physical lines of a          *)
(* document.                                                               *)
(*                                                                         *)
(* Text is modelled at character level: a line is a sequence of            *)
(* one-character strings, so that startsWith, substring, trim and the      *)
(* field windows are computed as the code computes them.  Numbers are      *)
(* extended reals (finite integer, +Infinity, -Infinity, NaN).             *)
(*                                                                         *)
(* The document is revealed to the parser one physical line at a time      *)
(* (Feed / Close): every step of the code depends only on the lines up to  *)
(* the line it reads, so a run of the model over the revealed prefix is    *)
(* the run of the code over every document that extends it.                *)
(***************************************************************************)
EXTENDS Integers, Sequences, FiniteSets, TLC

VARIABLES
    lines,            \* parseState.lines (the physical lines revealed so far)
    eof,              \* TRUE when `lines` is the whole document
    index,            \* parseState.index (0-based)
    constraintTypes,  \* parseState.constraintTypes : row name -> type
    name,             \* model.name
    objective,        \* model.objective (Undefined until the first N row)
    constraints,      \* model.constraints : row name -> <<lower, upper>>
    variables,        \* model.variables : column name -> (row name -> value)
    integers,         \* model.integers
    binaries,         \* model.binaries
    bounds,           \* model.bounds : column name -> <<lower, upper>>
    integerMarked,    \* readColumns' local flag
    colName,          \* readColumns' local `name` of the run in progress
    variable,         \* readColumns' local accumulator of the run in progress
    pc,               \* which reader of the chain is running
    result,           \* what modelFromMps returned or threw
    family,           \* which family of documents the input is drawn from
    probe,            \* a line handed to field1 .. field6 on its own
    fields,           \* <<field1(probe), ..., field6(probe)>>
    headerLine,       \* headersForNonEmptyColumns' first argument
    firstDataLine,    \* headersForNonEmptyColumns' second argument
    inferred,         \* what headersForNonEmptyColumns returned
    iCol,             \* parseResult's `i`, the index into the column block
    jRow,             \* parseResult's `j`, the index into the row block
    headers,          \* parseResult's `headers`
    solution,         \* parseResult's `result` (Status, Columns, Rows, ObjectiveValue)
    outcome,          \* how parseResult ended: "none", "Solution" or the error
    stdout_lines,     \* the lines the engine printed to stdout
    stderr_lines,     \* the lines the engine printed to stderr
    instances,        \* the Highs instances created and not destroyed
    calls,            \* the number of Module.solve calls started
    options,          \* the types of the option values still to be set
    handed,           \* the lines the last call handed to parseResult
    ended             \* how the last call of Module.solve ended

vars == <<lines, eof, index, constraintTypes, name, objective, constraints,
          variables, integers, binaries, bounds, integerMarked, colName,
          variable, pc, result, family, probe, fields, headerLine, firstDataLine,
          inferred, iCol, jRow, headers, solution, outcome, stdout_lines, stderr_lines,
          instances, calls, options, handed, ended>>

-----------------------------------------------------------------------------
(* Bounds of the model.                                                    *)

\* at most this many data lines in the section a document family explores
MaxData == 3
\* at most this many comment lines in a document
MaxComments == 1
\* at most this many physical lines before the NAME line
MaxPreamble == 1
\* a probe line has at most this many characters
MaxProbeLen == 62

-----------------------------------------------------------------------------
(* Strings: sequences of one-character strings.                            *)

Min(a, b) == IF a < b THEN a ELSE b

Max(S) == CHOOSE i \in S : \A j \in S : j <= i

Spaces(n) == [i \in 1..n |-> " "]

\* String.prototype.startsWith
startsWith(s, prefix) ==
    /\ Len(s) >= Len(prefix)
    /\ SubSeq(s, 1, Len(prefix)) = prefix

\* String.prototype.substring(a, b) for 0 <= a <= b: both ends are clamped to
\* the length of the string, so a window past the end yields "".
substring(s, a, b) == SubSeq(s, Min(a, Len(s)) + 1, Min(b, Len(s)))

RECURSIVE trimStart(_)
trimStart(s) ==
    IF s # <<>> /\ Head(s) = " " THEN trimStart(Tail(s)) ELSE s

RECURSIVE trimEnd(_)
\* String.prototype.trimEnd (the only whitespace of the alphabet is " ")
trimEnd(s) ==
    IF s # <<>> /\ s[Len(s)] = " " THEN trimEnd(SubSeq(s, 1, Len(s) - 1)) ELSE s

\* String.prototype.trim
trim(s) == trimStart(trimEnd(s))

-----------------------------------------------------------------------------
(* The six fixed fields of a line.                                         *)

field1(line) == trim(substring(line, 1, 3))
\* field 2 read one column too far to the left
field2_shifted(line) == trim(substring(line, 3, 11))
field2(line) == trim(substring(line, 4, 12))
field3(line) == trim(substring(line, 14, 22))
field4(line) == trim(substring(line, 24, 36))
field5(line) == trim(substring(line, 39, 47))
field6(line) == trim(substring(line, 49, 61))

-----------------------------------------------------------------------------
(* Numbers.                                                                *)

Fin(n) == [t |-> "fin", v |-> n]
Infinity == [t |-> "inf", v |-> 1]
NegInfinity == [t |-> "inf", v |-> -1]
NaN == [t |-> "nan", v |-> 0]

isNaN(x) == x.t = "nan"

\* unary minus
Neg(x) == IF x.t = "nan" THEN NaN ELSE [t |-> x.t, v |-> -x.v]

\* Math.abs
Abs(x) == IF x.v < 0 THEN Neg(x) ELSE x

\* a + b of IEEE doubles (Infinity + -Infinity is NaN)
Add(a, b) ==
    IF isNaN(a) \/ isNaN(b) THEN NaN
    ELSE IF a.t = "fin" /\ b.t = "fin" THEN Fin(a.v + b.v)
    ELSE IF a.t = "fin" THEN b
    ELSE IF b.t = "fin" THEN a
    ELSE IF a.v = b.v THEN a
    ELSE NaN

\* a - b
Sub(a, b) == Add(a, Neg(b))

\* a < b (false when either side is NaN)
Lt(a, b) ==
    /\ ~isNaN(a)
    /\ ~isNaN(b)
    /\ IF a.t = "fin" /\ b.t = "fin" THEN a.v < b.v
       ELSE IF a.t = "inf" /\ b.t = "inf" THEN a.v < b.v
       ELSE IF a.t = "inf" THEN a.v < 0
       ELSE b.v > 0

\* a <= b
Leq(a, b) == Lt(a, b) \/ (~isNaN(a) /\ a = b)

Digits == <<"0", "1", "2", "3", "4", "5", "6", "7", "8", "9">>

isDigit(c) == \E d \in 1..10 : Digits[d] = c

digitValue(c) == (CHOOSE d \in 1..10 : Digits[d] = c) - 1

RECURSIVE digitsPrefix(_)
\* the longest prefix of s made of decimal digits
digitsPrefix(s) ==
    IF s # <<>> /\ isDigit(Head(s)) THEN <<Head(s)>> \o digitsPrefix(Tail(s))
    ELSE <<>>

RECURSIVE digitsValue(_)
digitsValue(ds) ==
    IF ds = <<>> THEN 0
    ELSE 10 * digitsValue(SubSeq(ds, 1, Len(ds) - 1)) + digitValue(ds[Len(ds)])

\* parseFloat on a trimmed text of the alphabet (sign, digits, letters): an
\* optional sign and the longest run of digits after it; NaN when there is
\* no digit.  Fractions and exponents are outside the alphabet.
parseFloat(s) ==
    LET signed == s # <<>> /\ Head(s) \in {"-", "+"}
        body == IF signed THEN Tail(s) ELSE s
        ds == digitsPrefix(body)
    IN IF ds = <<>> THEN NaN
       ELSE IF signed /\ Head(s) = "-" THEN Fin(-digitsValue(ds))
       ELSE Fin(digitsValue(ds))

-----------------------------------------------------------------------------
(* Optional values, maps, errors.                                          *)

\* JavaScript's undefined, for a string that may be absent
Undefined == [defined |-> FALSE, text |-> <<>>]
Some(s) == [defined |-> TRUE, text |-> s]

EmptyMap == <<>>
has(m, k) == k \in DOMAIN m
MapSet(m, k, v) == [x \in (DOMAIN m) \cup {k} |-> IF x = k THEN v ELSE m[x]]

\* the literals the code compares lines and fields with
sNAME == <<"N", "A", "M", "E">>
sROWS == <<"R", "O", "W", "S">>
sCOLUMNS == <<"C", "O", "L", "U", "M", "N", "S">>
sRHS == <<"R", "H", "S">>
sRANGES == <<"R", "A", "N", "G", "E", "S">>
sBOUNDS == <<"B", "O", "U", "N", "D", "S">>
sENDATA == <<"E", "N", "D", "A", "T", "A">>
sMARKER == <<"'", "M", "A", "R", "K", "E", "R", "'">>
sINTORG == <<"'", "I", "N", "T", "O", "R", "G", "'">>
sINTEND == <<"'", "I", "N", "T", "E", "N", "D", "'">>
sL == <<"L">>
sG == <<"G">>
sE == <<"E">>
sN == <<"N">>
sLO == <<"L", "O">>
sUP == <<"U", "P">>
sFX == <<"F", "X">>
sFR == <<"F", "R">>
sMI == <<"M", "I">>
sPL == <<"P", "L">>
sBV == <<"B", "V">>
sLI == <<"L", "I">>
sUI == <<"U", "I">>
sSC == <<"S", "C">>

\* an Error value returned up the chain of readers; null is "no error"
Err(kind) == [kind |-> kind, expected |-> "", actual |-> Undefined]
null == Err("null")

\* the error thrown with the 0-based index as its line number
Throw_zeroBased(e, idx) ==
    [kind |-> e.kind, expected |-> e.expected, actual |-> e.actual, line |-> idx]

\* what modelFromMps ends with: `Line ${parseState.index + 1}: ${message}`
\* thrown, or the model returned
Throw(e, idx) ==
    [kind |-> e.kind, expected |-> e.expected, actual |-> e.actual, line |-> idx + 1]
Returned == [kind |-> "Model", expected |-> "", actual |-> Undefined, line |-> 0]
Running == [kind |-> "none", expected |-> "", actual |-> Undefined, line |-> 0]

-----------------------------------------------------------------------------
(* The cursor.                                                             *)

isComment(line) == startsWith(line, <<"*">>)

\* notSectionEnd: line?.startsWith(" ") ?? false
notSectionEnd(line) == line.defined /\ startsWith(line.text, <<" ">>)

\* the i at which nextLine's loop stops, or -1 when it runs off the end
nextLineIndex(ls, idx) ==
    LET found == {i \in (idx + 1)..(Len(ls) - 1) : ~isComment(ls[i + 1])}
    IN IF found = {} THEN -1
       ELSE CHOOSE i \in found : \A j \in found : i <= j

\* nextLine(s): the line returned, and s.index after the call (unchanged when
\* the loop runs off the end)
nextLine(ls, idx) ==
    LET i == nextLineIndex(ls, idx)
    IN IF i >= 0 THEN [line |-> Some(ls[i + 1]), index |-> i]
       ELSE [line |-> Undefined, index |-> idx]

\* readSection: s.lines[s.index]?.trimEnd()
readSection(ls, idx) ==
    IF idx < Len(ls) THEN Some(trimEnd(ls[idx + 1])) ELSE Undefined

\* sectionErr(expected, section): `actual` undefined prints "end of file"
sectionErr(expected, section) ==
    [kind |-> "Expected section", expected |-> expected, actual |-> section]

expectSection(ls, idx, section, label) ==
    LET nm == readSection(ls, idx)
    IN IF nm.defined /\ nm.text = section THEN null ELSE sectionErr(label, nm)

-----------------------------------------------------------------------------
(* The body of each reader's loop, as a function of the state it reads.    *)

\* readRows where every N row becomes the objective (= instead of ??=)
readRowsLine_lastWins(ct, cons, obj, line) ==
    LET nm == field2(line)
        type == field1(line)
        same == [err |-> null, constraintTypes |-> ct, constraints |-> cons,
                 objective |-> obj]
    IN IF nm = <<>> THEN [same EXCEPT !.err = Err("Missing row name")]
       ELSE IF has(ct, nm) THEN [same EXCEPT !.err = Err("The row was already defined")]
       ELSE IF type = sL THEN
           [same EXCEPT !.constraints = MapSet(cons, nm, <<NegInfinity, Fin(0)>>),
                        !.constraintTypes = MapSet(ct, nm, type)]
       ELSE IF type = sG THEN
           [same EXCEPT !.constraints = MapSet(cons, nm, <<Fin(0), Infinity>>),
                        !.constraintTypes = MapSet(ct, nm, type)]
       ELSE IF type = sE THEN
           [same EXCEPT !.constraints = MapSet(cons, nm, <<Fin(0), Fin(0)>>),
                        !.constraintTypes = MapSet(ct, nm, type)]
       ELSE IF type = sN THEN
           [same EXCEPT !.objective = Some(nm),
                        !.constraints = MapSet(cons, nm, <<NegInfinity, Infinity>>),
                        !.constraintTypes = MapSet(ct, nm, type)]
       ELSE IF type = <<>> THEN [same EXCEPT !.err = Err("Missing row type")]
       ELSE [same EXCEPT !.err = Err("Unexpected row type")]

\* one iteration of readRows' loop on a data line
readRowsLine(ct, cons, obj, line) ==
    LET nm == field2(line)
        type == field1(line)
        same == [err |-> null, constraintTypes |-> ct, constraints |-> cons,
                 objective |-> obj]
    IN IF nm = <<>> THEN [same EXCEPT !.err = Err("Missing row name")]
       ELSE IF has(ct, nm) THEN [same EXCEPT !.err = Err("The row was already defined")]
       ELSE IF type = sL THEN
           [same EXCEPT !.constraints = MapSet(cons, nm, <<NegInfinity, Fin(0)>>),
                        !.constraintTypes = MapSet(ct, nm, type)]
       ELSE IF type = sG THEN
           [same EXCEPT !.constraints = MapSet(cons, nm, <<Fin(0), Infinity>>),
                        !.constraintTypes = MapSet(ct, nm, type)]
       ELSE IF type = sE THEN
           [same EXCEPT !.constraints = MapSet(cons, nm, <<Fin(0), Fin(0)>>),
                        !.constraintTypes = MapSet(ct, nm, type)]
       ELSE IF type = sN THEN
           [same EXCEPT !.objective = IF obj.defined THEN obj ELSE Some(nm),
                        !.constraints = MapSet(cons, nm, <<NegInfinity, Infinity>>),
                        !.constraintTypes = MapSet(ct, nm, type)]
       ELSE IF type = <<>> THEN [same EXCEPT !.err = Err("Missing row type")]
       ELSE [same EXCEPT !.err = Err("Unexpected row type")]

\* addCoefficient without the check that the row was declared
addCoefficient_undeclared(ct, var, row, value) ==
    LET val == parseFloat(value)
    IN IF row = <<>> THEN [err |-> Err("Missing row name"), variable |-> var]
       ELSE IF value = <<>> THEN [err |-> Err("Missing coefficient value"), variable |-> var]
       ELSE IF has(var, row) THEN
           [err |-> Err("The coefficient was previously set for this column"),
            variable |-> var]
       ELSE IF isNaN(val) THEN [err |-> Err("Failed to parse number"), variable |-> var]
       ELSE [err |-> null, variable |-> MapSet(var, row, val)]

addCoefficient(ct, var, row, value) ==
    LET val == parseFloat(value)
    IN IF row = <<>> THEN [err |-> Err("Missing row name"), variable |-> var]
       ELSE IF value = <<>> THEN [err |-> Err("Missing coefficient value"), variable |-> var]
       ELSE IF ~has(ct, row) THEN
           [err |-> Err("The row was not defined in the ROWS section"), variable |-> var]
       ELSE IF has(var, row) THEN
           [err |-> Err("The coefficient was previously set for this column"),
            variable |-> var]
       ELSE IF isNaN(val) THEN [err |-> Err("Failed to parse number"), variable |-> var]
       ELSE [err |-> null, variable |-> MapSet(var, row, val)]

\* the body of readColumns' do-while on one line: fields (3,4), then (5,6) if
\* either is present
columnLine(ct, var, line) ==
    LET r1 == addCoefficient(ct, var, field3(line), field4(line))
    IN IF r1.err # null THEN r1
       ELSE IF field5(line) # <<>> \/ field6(line) # <<>> THEN
           addCoefficient(ct, r1.variable, field5(line), field6(line))
       ELSE r1

\* the run of lines of a column ends without being committed
commitVariables_dropped(vs, cn, var) == vs

\* the commit at the end of a run of lines of one column
commitVariables(vs, cn, var) == IF cn.defined THEN MapSet(vs, cn.text, var) ELSE vs
\* the commit that marks the column integer whatever the flag says
commitIntegers_always(ints, cn, marked) ==
    IF cn.defined THEN ints \cup {cn.text} ELSE ints

commitIntegers(ints, cn, marked) ==
    IF cn.defined /\ marked THEN ints \cup {cn.text} ELSE ints

\* the head of readColumns' outer loop on a line that does not continue the
\* run in progress (vs: model.variables after that run was committed)
columnHead(ct, vs, marked, line) ==
    LET nm == field2(line)
        marker == field4(line)
        none == [err |-> null, integerMarked |-> marked, colName |-> Undefined,
                 variable |-> EmptyMap]
    IN IF field3(line) = sMARKER THEN
           IF marker = sINTORG THEN [none EXCEPT !.integerMarked = TRUE]
           ELSE IF marker = sINTEND THEN [none EXCEPT !.integerMarked = FALSE]
           ELSE [none EXCEPT !.err = Err("Unexpected MARKER")]
       ELSE IF nm = <<>> THEN [none EXCEPT !.err = Err("Missing column name")]
       ELSE IF has(vs, nm) THEN
           [none EXCEPT !.err = Err("Values for the column were previously provided")]
       ELSE LET r == columnLine(ct, EmptyMap, line)
            IN [err |-> r.err, integerMarked |-> marked, colName |-> Some(nm),
                variable |-> r.variable]

\* addConstraint with the two sides of the pair exchanged
addConstraint_swapped(ct, cons, row, value) ==
    LET val == parseFloat(value)
        type == ct[row]
        c == cons[row]
        c1 == IF type = sL \/ type = sE THEN <<val, c[2]>> ELSE c
        c2 == IF type = sG \/ type = sE THEN <<c1[1], val>> ELSE c1
    IN IF row = <<>> THEN [err |-> Err("Missing row name"), constraints |-> cons]
       ELSE IF value = <<>> THEN [err |-> Err("Missing rhs value"), constraints |-> cons]
       ELSE IF ~has(ct, row) THEN
           [err |-> Err("The row was not defined in the ROWS section"), constraints |-> cons]
       ELSE IF isNaN(val) THEN [err |-> Err("Failed to parse number"), constraints |-> cons]
       ELSE [err |-> null, constraints |-> MapSet(cons, row, c2)]

addConstraint(ct, cons, row, value) ==
    LET val == parseFloat(value)
        type == ct[row]
        c == cons[row]
        c1 == IF type = sL \/ type = sE THEN <<c[1], val>> ELSE c
        c2 == IF type = sG \/ type = sE THEN <<val, c1[2]>> ELSE c1
    IN IF row = <<>> THEN [err |-> Err("Missing row name"), constraints |-> cons]
       ELSE IF value = <<>> THEN [err |-> Err("Missing rhs value"), constraints |-> cons]
       ELSE IF ~has(ct, row) THEN
           [err |-> Err("The row was not defined in the ROWS section"), constraints |-> cons]
       ELSE IF isNaN(val) THEN [err |-> Err("Failed to parse number"), constraints |-> cons]
       ELSE [err |-> null, constraints |-> MapSet(cons, row, c2)]

\* one iteration of readRHS' loop
readRHSLine(ct, cons, line) ==
    LET r1 == addConstraint(ct, cons, field3(line), field4(line))
    IN IF r1.err # null THEN r1
       ELSE IF field5(line) # <<>> \/ field6(line) # <<>> THEN
           addConstraint(ct, r1.constraints, field5(line), field6(line))
       ELSE r1

\* addRange that ignores the sign of the range of an E row
addRange_signBlind(ct, cons, row, value) ==
    LET val == parseFloat(value)
        type == ct[row]
        b == cons[row]
        b1 == IF type = sL THEN <<Sub(b[2], Abs(val)), b[2]>> ELSE b
        b2 == IF type = sG \/ (type = sE /\ ~(val = Fin(0)))
              THEN <<b1[1], Add(b1[1], Abs(val))>> ELSE b1
    IN IF row = <<>> THEN [err |-> Err("Missing row name"), constraints |-> cons]
       ELSE IF value = <<>> THEN [err |-> Err("Missing range value"), constraints |-> cons]
       ELSE IF ~has(ct, row) THEN
           [err |-> Err("The row was not defined in the ROWS section"), constraints |-> cons]
       ELSE IF isNaN(val) THEN [err |-> Err("Failed to parse number"), constraints |-> cons]
       ELSE [err |-> null, constraints |-> MapSet(cons, row, b2)]

\* addRange without Math.abs
addRange_noAbs(ct, cons, row, value) ==
    LET val == parseFloat(value)
        type == ct[row]
        b == cons[row]
        b1 == IF type = sL \/ (type = sE /\ Lt(val, Fin(0)))
              THEN <<Sub(b[2], val), b[2]>> ELSE b
        b2 == IF type = sG \/ (type = sE /\ Lt(Fin(0), val))
              THEN <<b1[1], Add(b1[1], val)>> ELSE b1
    IN IF row = <<>> THEN [err |-> Err("Missing row name"), constraints |-> cons]
       ELSE IF value = <<>> THEN [err |-> Err("Missing range value"), constraints |-> cons]
       ELSE IF ~has(ct, row) THEN
           [err |-> Err("The row was not defined in the ROWS section"), constraints |-> cons]
       ELSE IF isNaN(val) THEN [err |-> Err("Failed to parse number"), constraints |-> cons]
       ELSE [err |-> null, constraints |-> MapSet(cons, row, b2)]

addRange(ct, cons, row, value) ==
    LET val == parseFloat(value)
        type == ct[row]
        b == cons[row]
        b1 == IF type = sL \/ (type = sE /\ Lt(val, Fin(0)))
              THEN <<Sub(b[2], Abs(val)), b[2]>> ELSE b
        b2 == IF type = sG \/ (type = sE /\ Lt(Fin(0), val))
              THEN <<b1[1], Add(b1[1], Abs(val))>> ELSE b1
    IN IF row = <<>> THEN [err |-> Err("Missing row name"), constraints |-> cons]
       ELSE IF value = <<>> THEN [err |-> Err("Missing range value"), constraints |-> cons]
       ELSE IF ~has(ct, row) THEN
           [err |-> Err("The row was not defined in the ROWS section"), constraints |-> cons]
       ELSE IF isNaN(val) THEN [err |-> Err("Failed to parse number"), constraints |-> cons]
       ELSE [err |-> null, constraints |-> MapSet(cons, row, b2)]

\* one iteration of readRanges' loop
readRangesLine(ct, cons, line) ==
    LET r1 == addRange(ct, cons, field3(line), field4(line))
    IN IF r1.err # null THEN r1
       ELSE IF field5(line) # <<>> \/ field6(line) # <<>> THEN
           addRange(ct, r1.constraints, field5(line), field6(line))
       ELSE r1

\* setBounds with the convention of other MPS readers: a negative upper bound
\* on a lower bound of 0 widens the lower bound to -Infinity
setBounds_widening(bnds, nm, lower, upper) ==
    LET b0 == IF has(bnds, nm) THEN bnds[nm] ELSE <<Fin(0), Infinity>>
        b1 == IF ~isNaN(lower) THEN <<lower, b0[2]>> ELSE b0
        b2 == IF ~isNaN(upper) THEN <<b1[1], upper>> ELSE b1
        b3 == IF Lt(b2[2], Fin(0)) /\ b2[1] = Fin(0) THEN <<NegInfinity, b2[2]>> ELSE b2
    IN MapSet(bnds, nm, b3)

setBounds(bnds, nm, lower, upper) ==
    LET b0 == IF has(bnds, nm) THEN bnds[nm] ELSE <<Fin(0), Infinity>>
        b1 == IF ~isNaN(lower) THEN <<lower, b0[2]>> ELSE b0
        b2 == IF ~isNaN(upper) THEN <<b1[1], upper>> ELSE b1
    IN MapSet(bnds, nm, b2)

\* one iteration of readBounds' loop
readBoundsLine(vs, bnds, ints, bins, line) ==
    LET type == field1(line)
        col == field3(line)
        value == field4(line)
        valued == type \in {sLO, sUP, sFX, sLI, sUI}
        val == IF valued THEN parseFloat(value) ELSE NaN
        same == [err |-> null, bounds |-> bnds, integers |-> ints, binaries |-> bins]
    IN IF col = <<>> THEN [same EXCEPT !.err = Err("Missing column name")]
       ELSE IF ~has(vs, col) THEN
           [same EXCEPT !.err = Err("The column was not defined in the COLUMNS section")]
       ELSE IF valued /\ value = <<>> THEN [same EXCEPT !.err = Err("Missing bound value")]
       ELSE IF valued /\ isNaN(val) THEN [same EXCEPT !.err = Err("Failed to parse number")]
       ELSE IF type = sLO THEN [same EXCEPT !.bounds = setBounds(bnds, col, val, Infinity)]
       ELSE IF type = sUP THEN [same EXCEPT !.bounds = setBounds(bnds, col, Fin(0), val)]
       ELSE IF type = sFX THEN [same EXCEPT !.bounds = setBounds(bnds, col, val, val)]
       ELSE IF type = sFR THEN
           [same EXCEPT !.bounds = setBounds(bnds, col, NegInfinity, Infinity)]
       ELSE IF type = sMI THEN
           [same EXCEPT !.bounds = setBounds(bnds, col, NegInfinity, Fin(0))]
       ELSE IF type = sPL THEN [same EXCEPT !.bounds = setBounds(bnds, col, Fin(0), Infinity)]
       ELSE IF type = sBV THEN [same EXCEPT !.binaries = bins \cup {col}]
       ELSE IF type = sLI THEN
           [same EXCEPT !.integers = ints \cup {col},
                        !.bounds = setBounds(bnds, col, val, Infinity)]
       ELSE IF type = sUI THEN
           [same EXCEPT !.integers = ints \cup {col},
                        !.bounds = setBounds(bnds, col, Fin(0), val)]
       ELSE IF type = sSC THEN [same EXCEPT !.err = Err("SC bound type is unsupported")]
       ELSE IF type = <<>> THEN [same EXCEPT !.err = Err("Missing bound type")]
       ELSE [same EXCEPT !.err = Err("Unexpected bound type")]

-----------------------------------------------------------------------------
(* The documents the input is drawn from.                                  *)

Pad(s, n) == s \o Spaces(n - Len(s))

\* a data line with the six fields at their columns, without trailing blanks
DataLine(f1, f2, f3, f4, f5, f6) ==
    trimEnd(<<" ">> \o Pad(f1, 2) \o <<" ">> \o Pad(f2, 8) \o Spaces(2)
            \o Pad(f3, 8) \o Spaces(2) \o Pad(f4, 12) \o Spaces(3)
            \o Pad(f5, 8) \o Spaces(2) \o Pad(f6, 12))

ta == <<"a">>
tb == <<"b">>
tc == <<"c">>
tx == <<"x">>
ty == <<"y">>
tr == <<"r">>
tZZ == <<"Z", "Z">>
n0 == <<"0">>
n1 == <<"1">>
n2 == <<"2">>
n4 == <<"4">>
n10 == <<"1", "0">>
m4 == <<"-", "4">>
bad == <<"z">>
no == <<>>

NameLine == sNAME \o Spaces(10) \o <<"t">>
CommentLine == <<"*", " ", "R", "O", "W", "S">>
JunkLine == <<"F", "O", "O">>

RowLine(type, row) == DataLine(type, row, no, no, no, no)
ColLine(col, row, val) == DataLine(no, col, row, val, no, no)
ColLine2(col, r1, v1, r2, v2) == DataLine(no, col, r1, v1, r2, v2)
MarkerLine(marker) == DataLine(no, <<"M">>, sMARKER, marker, no, no)
RhsLine(row, val) == DataLine(no, tr, row, val, no, no)
RhsLine2(r1, v1, r2, v2) == DataLine(no, tr, r1, v1, r2, v2)
BoundLine(type, col, val) == DataLine(type, <<"B">>, col, val, no, no)

Families == {"sections", "rows", "columns", "rhs", "ranges", "bounds"}

RowErrorLines == {RowLine(no, ta), RowLine(tZZ, ta), RowLine(sN, no)}
ColErrorLines ==
    {MarkerLine(tZZ), ColLine(no, ta, n1), ColLine(tx, no, n1), ColLine(tx, ta, no),
     ColLine(tx, tc, n1), ColLine(tx, ta, bad), ColLine2(tx, ta, n1, no, n2)}
PairErrorLines ==
    {RhsLine(no, n4), RhsLine(ta, no), RhsLine(tc, n4), RhsLine(ta, bad),
     RhsLine2(ta, n4, tc, no)}
BoundErrorLines ==
    {BoundLine(sSC, tx, n1), BoundLine(no, tx, n1), BoundLine(tZZ, tx, n1),
     BoundLine(sUP, no, n1), BoundLine(sUP, ty, n1), BoundLine(sLO, tx, no),
     BoundLine(sUP, tx, bad)}

\* the lines a document of family f may have as k-th data line of a section
RowsMenu(f, k) ==
    IF f = "sections" THEN IF k = 1 THEN {RowLine(sL, ta)} \cup RowErrorLines ELSE {}
    ELSE IF f = "rows" THEN
        IF k <= MaxData
        THEN {RowLine(sL, ta), RowLine(sN, ta), RowLine(sN, tb), RowLine(sE, tb)}
             \cup RowErrorLines
        ELSE {}
    ELSE IF f = "columns" THEN
        IF k = 1 THEN {RowLine(sN, ta)} ELSE IF k = 2 THEN {RowLine(sL, tb)} ELSE {}
    ELSE IF f \in {"rhs", "ranges"} THEN
        IF k = 1
        THEN {RowLine(sL, ta), RowLine(sG, ta), RowLine(sE, ta), RowLine(sN, ta)}
        ELSE IF k = 2 THEN {RowLine(sG, tb)} ELSE {}
    ELSE IF k = 1 THEN {RowLine(sN, ta)} ELSE {}

ColumnsMenu(f, k) ==
    IF f = "sections" THEN IF k = 1 THEN {ColLine(tx, ta, n1)} \cup ColErrorLines ELSE {}
    ELSE IF f = "columns" THEN
        IF k <= MaxData
        THEN {ColLine(tx, ta, n1), ColLine(tx, tb, n2), ColLine(ty, ta, n1),
              ColLine2(tx, ta, n1, tb, n2), ColLine2(tx, ta, n1, ta, n2),
              MarkerLine(sINTORG), MarkerLine(sINTEND),
              DataLine(no, tx, sMARKER, sINTEND, no, no)}
             \cup ColErrorLines
        ELSE {}
    ELSE IF f = "bounds" THEN
        IF k = 1 THEN {ColLine(tx, ta, n1)}
        ELSE IF k = 2 THEN {MarkerLine(sINTORG)}
        ELSE IF k = 3 THEN {ColLine(ty, ta, n1)}
        ELSE {}
    ELSE {}

RHSMenu(f, k) ==
    IF f = "sections" THEN IF k = 1 THEN {RhsLine(ta, n10)} \cup PairErrorLines ELSE {}
    ELSE IF f = "rhs" THEN
        IF k <= MaxData
        THEN {RhsLine(ta, n10), RhsLine(ta, m4), RhsLine(tb, n4),
              RhsLine2(ta, n10, ta, n4), RhsLine2(ta, n2, tb, n1)}
             \cup PairErrorLines
        ELSE {}
    ELSE IF f = "ranges" THEN IF k = 1 THEN {RhsLine(ta, n10), RhsLine(ta, m4)} ELSE {}
    ELSE {}

RangesMenu(f, k) ==
    IF f = "sections" THEN IF k = 1 THEN {RhsLine(ta, n4)} \cup PairErrorLines ELSE {}
    ELSE IF f = "ranges" THEN
        IF k <= MaxData
        THEN {RhsLine(ta, n4), RhsLine(ta, m4), RhsLine(ta, n0), RhsLine(tb, n2),
              RhsLine2(ta, n4, ta, m4), RhsLine2(ta, m4, tb, n1)}
             \cup PairErrorLines
        ELSE {}
    ELSE IF f = "rhs" THEN IF k = 1 THEN {RhsLine(ta, n4)} ELSE {}
    ELSE {}

BoundsMenu(f, k) ==
    IF f = "sections" THEN IF k = 1 THEN {BoundLine(sUP, tx, n4)} \cup BoundErrorLines ELSE {}
    ELSE IF f = "bounds" THEN
        IF k <= MaxData
        THEN {BoundLine(sLO, tx, n1), BoundLine(sUP, tx, n4), BoundLine(sUP, tx, m4),
              BoundLine(sLI, tx, n2), BoundLine(sUI, tx, n10), BoundLine(sFX, tx, n2),
              BoundLine(sFR, tx, no), BoundLine(sMI, tx, no), BoundLine(sPL, tx, no),
              BoundLine(sBV, tx, no), BoundLine(sUP, ty, n1)}
             \cup BoundErrorLines
        ELSE {}
    ELSE {}

\* the non-indented lines a document of family f may have while reader p runs
HeaderMenu(f, p) ==
    IF f = "sections"
    THEN {sROWS, sCOLUMNS, sRHS, sRANGES, sBOUNDS, sENDATA, sENDATA \o Spaces(2),
          JunkLine, <<>>}
    ELSE IF p = "expectRows" THEN {sROWS}
    ELSE IF p = "readRows" THEN {sCOLUMNS}
    ELSE IF p = "readColumns" THEN {sRHS}
    ELSE IF p = "readRHS" THEN
        IF f \in {"rhs", "ranges"} THEN {sRANGES, sENDATA}
        ELSE IF f = "bounds" THEN {sBOUNDS}
        ELSE {sENDATA}
    ELSE {sENDATA}

DataMenu(f, p, k) ==
    IF p = "expectRows" THEN IF f = "sections" THEN {RowLine(sL, ta)} ELSE {}
    ELSE IF p = "readRows" THEN RowsMenu(f, k)
    ELSE IF p = "readColumns" THEN ColumnsMenu(f, k)
    ELSE IF p = "readRHS" THEN RHSMenu(f, k)
    ELSE IF p = "readRanges" THEN RangesMenu(f, k)
    ELSE BoundsMenu(f, k)

isData(line) == startsWith(line, <<" ">>)
isHeader(line) == ~isData(line) /\ ~isComment(line)

CommentCount(ls) == Cardinality({i \in 1..Len(ls) : isComment(ls[i])})

\* the number of data lines since the last non-indented line
DataRun(ls) ==
    LET hs == {i \in 1..Len(ls) : isHeader(ls[i])}
        last == IF hs = {} THEN 0 ELSE CHOOSE i \in hs : \A j \in hs : j <= i
    IN Cardinality({i \in (last + 1)..Len(ls) : isData(ls[i])})

\* comment lines: anywhere in a document of family "sections", inside the
\* COLUMNS section in one of family "columns"
CommentMenu(f, p, ls) ==
    IF /\ f = "sections" \/ (f = "columns" /\ p = "readColumns")
       /\ CommentCount(ls) < MaxComments
    THEN {CommentLine} ELSE {}

\* the 0-based index readName's findIndex returns, -1 when no line matches
NameIndex(ls) ==
    LET found == {i \in 0..(Len(ls) - 1) : startsWith(ls[i + 1], sNAME)}
    IN IF found = {} THEN -1
       ELSE CHOOSE i \in found : \A j \in found : i <= j

Offered ==
    IF pc = "readName" THEN
        {NameLine} \cup
        (IF family = "sections" /\ Len(lines) < MaxPreamble
         THEN {JunkLine} \cup CommentMenu(family, pc, lines) ELSE {})
    ELSE DataMenu(family, pc, DataRun(lines) + 1) \cup HeaderMenu(family, pc)
         \cup CommentMenu(family, pc, lines)

\* the reader that is running cannot proceed on the lines revealed so far
NeedsInput ==
    /\ ~eof
    /\ result = Running
    /\ IF pc = "readName" THEN NameIndex(lines) = -1
       ELSE IF pc = "expectRows" THEN index >= Len(lines)
       ELSE nextLineIndex(lines, index) = -1

\* what nextLine returns is determined by the lines revealed so far
NextKnown == result = Running /\ (nextLineIndex(lines, index) >= 0 \/ eof)

-----------------------------------------------------------------------------
(* The state machine.                                                      *)

\* parseResult's `result` before the first line is decoded
EmptySolution ==
    [Status |-> "Optimal", Columns |-> EmptyMap, Rows |-> <<>>, ObjectiveValue |-> NaN]

\* the report reader and Module.solve have not been called
ReportIdle ==
    /\ headerLine = <<>>
    /\ firstDataLine = <<>>
    /\ inferred = <<>>
    /\ iCol = 0
    /\ jRow = 0
    /\ headers = <<>>
    /\ solution = EmptySolution
    /\ outcome = "none"

SolveIdle ==
    /\ stdout_lines = <<>>
    /\ stderr_lines = <<>>
    /\ instances = {}
    /\ calls = 0
    /\ options = <<>>
    /\ handed = <<>>
    /\ ended = "none"

Init ==
    /\ lines = <<>>
    /\ eof = FALSE
    /\ index = 0
    /\ constraintTypes = EmptyMap
    /\ name = <<>>
    /\ objective = Undefined
    /\ constraints = EmptyMap
    /\ variables = EmptyMap
    /\ integers = {}
    /\ binaries = {}
    /\ bounds = EmptyMap
    /\ integerMarked = FALSE
    /\ colName = Undefined
    /\ variable = EmptyMap
    /\ pc = "readName"
    /\ result = Running
    /\ family \in Families
    /\ probe = <<>>
    /\ fields = <<>>
    /\ ReportIdle
    /\ SolveIdle

\* what no step of the reader changes
reportVars == <<headerLine, firstDataLine, inferred, iCol, jRow, headers, solution, outcome>>

solveVars == <<stdout_lines, stderr_lines, instances, calls, options, handed, ended>>

env == <<family, probe, fields, reportVars, solveVars>>

modelVars == <<constraintTypes, name, objective, constraints, variables, integers,
               binaries, bounds, integerMarked, colName, variable>>

\* the next physical line of the document becomes known
Feed ==
    /\ NeedsInput
    /\ \E l \in Offered : lines' = Append(lines, l)
    /\ UNCHANGED <<eof, index, pc, result, env, modelVars>>

\* the document ends here
Close ==
    /\ NeedsInput
    /\ family = "sections"
    /\ eof' = TRUE
    /\ UNCHANGED <<lines, index, pc, result, env, modelVars>>

\* a reader returned `e` with the cursor at idx: modelFromMps throws, or the
\* chain goes on with reader `next`
Outcome(e, idx, next) ==
    /\ index' = idx
    /\ result' = IF e # null THEN Throw(e, idx) ELSE Running
    /\ pc' = IF e # null THEN "done" ELSE next

\* readName, up to its call of readRows
ReadName ==
    /\ pc = "readName"
    /\ result = Running
    /\ IF NameIndex(lines) >= 0
       THEN /\ name' = field3(lines[NameIndex(lines) + 1])
            /\ Outcome(null, NameIndex(lines) + 1, "expectRows")
       ELSE /\ eof
            /\ name' = name
            /\ Outcome(Err("No NAME section was found"), index, "done")
    /\ UNCHANGED <<lines, eof, env, constraintTypes, objective, constraints,
                   variables, integers, binaries, bounds, integerMarked, colName,
                   variable>>

\* readRows' expectSection(s, "ROWS")
ExpectRows ==
    /\ pc = "expectRows"
    /\ result = Running
    /\ index < Len(lines) \/ eof
    /\ Outcome(expectSection(lines, index, sROWS, "ROWS"), index, "readRows")
    /\ UNCHANGED <<lines, eof, env, modelVars>>

\* one iteration of readRows' loop
ReadRowsLine ==
    /\ pc = "readRows"
    /\ NextKnown
    /\ LET nl == nextLine(lines, index)
       IN /\ notSectionEnd(nl.line)
          /\ LET r == readRowsLine(constraintTypes, constraints, objective, nl.line.text)
             IN /\ constraintTypes' = r.constraintTypes
                /\ constraints' = r.constraints
                /\ objective' = r.objective
                /\ Outcome(r.err, nl.index, "readRows")
    /\ UNCHANGED <<lines, eof, env, name, variables, integers, binaries, bounds,
                   integerMarked, colName, variable>>

\* the end of readRows' loop and readColumns' expectSection(s, "COLUMNS")
ReadRowsEnd ==
    /\ pc = "readRows"
    /\ NextKnown
    /\ LET nl == nextLine(lines, index)
       IN /\ ~notSectionEnd(nl.line)
          /\ Outcome(expectSection(lines, nl.index, sCOLUMNS, "COLUMNS"), nl.index,
                     "readColumns")
    /\ integerMarked' = FALSE
    /\ UNCHANGED <<lines, eof, env, constraintTypes, name, objective, constraints,
                   variables, integers, binaries, bounds, colName, variable>>

\* one line of readColumns: it continues the run of the column in progress
\* (the do-while), or that run is committed and the outer loop's body runs
ReadColumnsLine ==
    /\ pc = "readColumns"
    /\ NextKnown
    /\ LET nl == nextLine(lines, index)
       IN /\ notSectionEnd(nl.line)
          /\ IF colName.defined /\ field2(nl.line.text) = colName.text
             THEN LET r == columnLine(constraintTypes, variable, nl.line.text)
                  IN /\ variable' = r.variable
                     /\ Outcome(r.err, nl.index, "readColumns")
                     /\ UNCHANGED <<variables, integers, integerMarked, colName>>
             ELSE LET vs == commitVariables(variables, colName, variable)
                      r == columnHead(constraintTypes, vs, integerMarked, nl.line.text)
                  IN /\ variables' = vs
                     /\ integers' = commitIntegers(integers, colName, integerMarked)
                     /\ integerMarked' = r.integerMarked
                     /\ colName' = r.colName
                     /\ variable' = r.variable
                     /\ Outcome(r.err, nl.index, "readColumns")
    /\ UNCHANGED <<lines, eof, env, constraintTypes, name, objective, constraints,
                   binaries, bounds>>

\* the end of readColumns' loop (the run in progress is committed) and readRHS'
\* expectSection(s, "RHS")
ReadColumnsEnd ==
    /\ pc = "readColumns"
    /\ NextKnown
    /\ LET nl == nextLine(lines, index)
       IN /\ ~notSectionEnd(nl.line)
          /\ Outcome(expectSection(lines, nl.index, sRHS, "RHS"), nl.index, "readRHS")
    /\ variables' = commitVariables(variables, colName, variable)
    /\ integers' = commitIntegers(integers, colName, integerMarked)
    /\ colName' = Undefined
    /\ variable' = EmptyMap
    /\ UNCHANGED <<lines, eof, env, constraintTypes, name, objective, constraints,
                   binaries, bounds, integerMarked>>

\* one iteration of readRHS' loop
ReadRHSLine ==
    /\ pc = "readRHS"
    /\ NextKnown
    /\ LET nl == nextLine(lines, index)
       IN /\ notSectionEnd(nl.line)
          /\ LET r == readRHSLine(constraintTypes, constraints, nl.line.text)
             IN /\ constraints' = r.constraints
                /\ Outcome(r.err, nl.index, "readRHS")
    /\ UNCHANGED <<lines, eof, env, constraintTypes, name, objective, variables,
                   integers, binaries, bounds, integerMarked, colName, variable>>

\* the section dispatch at the end of readRHS
rhsDispatch(section) ==
    IF section.defined /\ section.text = sRANGES THEN [err |-> null, next |-> "readRanges"]
    ELSE IF section.defined /\ section.text = sBOUNDS
        THEN [err |-> null, next |-> "readBounds"]
    ELSE IF section.defined /\ section.text = sENDATA THEN [err |-> null, next |-> "done"]
    ELSE [err |-> sectionErr("RANGES, BOUNDS, or ENDATA", section), next |-> "done"]

\* the dispatch at the end of readRanges accepting a second RANGES section
rangesDispatch_again(section) ==
    IF section.defined /\ section.text = sRANGES THEN [err |-> null, next |-> "readRanges"]
    ELSE IF section.defined /\ section.text = sBOUNDS
        THEN [err |-> null, next |-> "readBounds"]
    ELSE IF section.defined /\ section.text = sENDATA THEN [err |-> null, next |-> "done"]
    ELSE [err |-> sectionErr("BOUNDS or ENDATA", section), next |-> "done"]

\* the section dispatch at the end of readRanges
rangesDispatch(section) ==
    IF section.defined /\ section.text = sBOUNDS THEN [err |-> null, next |-> "readBounds"]
    ELSE IF section.defined /\ section.text = sENDATA THEN [err |-> null, next |-> "done"]
    ELSE [err |-> sectionErr("BOUNDS or ENDATA", section), next |-> "done"]

\* a reader ended the chain at idx with `d`: an error is thrown, null at
\* ENDATA returns the model, anything else goes on with the next reader
Dispatch(d, idx) ==
    /\ index' = idx
    /\ pc' = d.next
    /\ result' = IF d.err # null THEN Throw(d.err, idx)
                 ELSE IF d.next = "done" THEN Returned
                 ELSE Running

ReadRHSEnd ==
    /\ pc = "readRHS"
    /\ NextKnown
    /\ LET nl == nextLine(lines, index)
       IN /\ ~notSectionEnd(nl.line)
          /\ Dispatch(rhsDispatch(readSection(lines, nl.index)), nl.index)
    /\ UNCHANGED <<lines, eof, env, modelVars>>

\* one iteration of readRanges' loop
ReadRangesLine ==
    /\ pc = "readRanges"
    /\ NextKnown
    /\ LET nl == nextLine(lines, index)
       IN /\ notSectionEnd(nl.line)
          /\ LET r == readRangesLine(constraintTypes, constraints, nl.line.text)
             IN /\ constraints' = r.constraints
                /\ Outcome(r.err, nl.index, "readRanges")
    /\ UNCHANGED <<lines, eof, env, constraintTypes, name, objective, variables,
                   integers, binaries, bounds, integerMarked, colName, variable>>

ReadRangesEnd ==
    /\ pc = "readRanges"
    /\ NextKnown
    /\ LET nl == nextLine(lines, index)
       IN /\ ~notSectionEnd(nl.line)
          /\ Dispatch(rangesDispatch(readSection(lines, nl.index)), nl.index)
    /\ UNCHANGED <<lines, eof, env, modelVars>>

\* one iteration of readBounds' loop
ReadBoundsLine ==
    /\ pc = "readBounds"
    /\ NextKnown
    /\ LET nl == nextLine(lines, index)
       IN /\ notSectionEnd(nl.line)
          /\ LET r == readBoundsLine(variables, bounds, integers, binaries, nl.line.text)
             IN /\ bounds' = r.bounds
                /\ integers' = r.integers
                /\ binaries' = r.binaries
                /\ Outcome(r.err, nl.index, "readBounds")
    /\ UNCHANGED <<lines, eof, env, constraintTypes, name, objective, constraints,
                   variables, integerMarked, colName, variable>>

\* the end of readBounds' loop: expectSection(s, "ENDATA")
ReadBoundsEnd ==
    /\ pc = "readBounds"
    /\ NextKnown
    /\ LET nl == nextLine(lines, index)
       IN /\ ~notSectionEnd(nl.line)
          /\ Dispatch([err |-> expectSection(lines, nl.index, sENDATA, "ENDATA"),
                       next |-> "done"], nl.index)
    /\ UNCHANGED <<lines, eof, env, modelVars>>

Next ==
    \/ Feed
    \/ Close
    \/ ReadName
    \/ ExpectRows
    \/ ReadRowsLine
    \/ ReadRowsEnd
    \/ ReadColumnsLine
    \/ ReadColumnsEnd
    \/ ReadRHSLine
    \/ ReadRHSEnd
    \/ ReadRangesLine
    \/ ReadRangesEnd
    \/ ReadBoundsLine
    \/ ReadBoundsEnd

Spec == Init /\ [][Next]_vars

-----------------------------------------------------------------------------
(* The field extractor on its own: field1 .. field6 applied to probe lines. *)
(* A probe is a line of blanks of any length up to MaxProbeLen with the     *)
(* mark "x" at one position and the mark "y" at another.                    *)

ProbeLine(n, p, q) ==
    [i \in 1..n |-> IF i = p + 1 THEN "x" ELSE IF i = q + 1 THEN "y" ELSE " "]

InitFields ==
    /\ lines = <<>>
    /\ eof = FALSE
    /\ index = 0
    /\ constraintTypes = EmptyMap
    /\ name = <<>>
    /\ objective = Undefined
    /\ constraints = EmptyMap
    /\ variables = EmptyMap
    /\ integers = {}
    /\ binaries = {}
    /\ bounds = EmptyMap
    /\ integerMarked = FALSE
    /\ colName = Undefined
    /\ variable = EmptyMap
    /\ pc = "fields"
    /\ result = Running
    /\ family = "probe"
    /\ probe = <<>>
    /\ fields = <<field1(<<>>), field2(<<>>), field3(<<>>), field4(<<>>), field5(<<>>),
                  field6(<<>>)>>
    /\ ReportIdle
    /\ SolveIdle

\* the six fields of one line are extracted
Extract ==
    /\ pc = "fields"
    /\ \E n \in 0..MaxProbeLen, p \in 0..MaxProbeLen, q \in 0..MaxProbeLen :
          /\ p <= q
          /\ q - p <= 12
          /\ probe' = ProbeLine(n, p, q)
    /\ fields' = <<field1(probe'), field2(probe'), field3(probe'), field4(probe'),
                   field5(probe'), field6(probe')>>
    /\ pc' = "extracted"
    /\ UNCHANGED <<lines, eof, index, result, family, modelVars, reportVars, solveVars>>

NextFields == Extract

SpecFields == InitFields /\ [][NextFields]_vars

-----------------------------------------------------------------------------
(* The report reader: headersForNonEmptyColumns, lineToObj, parseResult.   *)

\* the 0-based position of the first blank of s at or after p, Len(s) when
\* there is none
wordEnd(s, p) ==
    LET stops == {q \in p..(Len(s) - 1) : s[q + 1] = " "}
    IN IF stops = {} THEN Len(s) ELSE CHOOSE q \in stops : \A r \in stops : q <= r

\* the 0-based positions at which a word of s starts
wordStarts(s) ==
    {p \in 0..(Len(s) - 1) : s[p + 1] # " " /\ (p = 0 \/ s[p] = " ")}

\* the matches of /[^\s]+/g in s, in order: each match with its index
\* (0-based) and its text
matchAll(s) ==
    LET starts == wordStarts(s)
        nth(k) == CHOOSE p \in starts : Cardinality({q \in starts : q < p}) = k - 1
    IN [k \in 1..Cardinality(starts) |->
           [index |-> nth(k), text |-> SubSeq(s, nth(k) + 1, wordEnd(s, nth(k)))]]

\* s[k] of a JavaScript string: undefined at and past the end
charAt(s, k) == IF k < Len(s) THEN Some(<<s[k + 1]>>) ELSE Undefined

\* c !== ' '
notSpace(c) == ~(c.defined /\ c.text = <<" ">>)

headersForNonEmptyColumns(hl, dl) ==
    LET kept == SelectSeq(matchAll(hl),
                          LAMBDA m : \/ notSpace(charAt(dl, m.index))
                                     \/ notSpace(charAt(dl, m.index + Len(m.text) - 1)))
    IN [k \in 1..Len(kept) |-> kept[k].text]

-----------------------------------------------------------------------------
(* lineToObj and parseResult.                                              *)

\* the element of a set of one element (binds a value that is computed once)
The(S) == CHOOSE v \in S : TRUE

\* lineValues: the words of a line
lineValues(s) == The({[k \in 1..Len(ms) |-> ms[k].text] : ms \in {matchAll(s)}})

sInfinity == <<"I", "n", "f", "i", "n", "i", "t", "y">>
sInf == <<"i", "n", "f">>
sMinusInf == <<"-", "i", "n", "f">>
sIndex == <<"I", "n", "d", "e", "x">>
sLower == <<"L", "o", "w", "e", "r">>
sUpper == <<"U", "p", "p", "e", "r">>
sPrimal == <<"P", "r", "i", "m", "a", "l">>
sDual == <<"D", "u", "a", "l">>
sName == <<"N", "a", "m", "e">>
sUndefined == <<"u", "n", "d", "e", "f", "i", "n", "e", "d">>
sRowsLine == <<"R", "o", "w", "s">>
sObjective == <<"O", "b", "j", "e", "c", "t", "i", "v", "e", " ", "v", "a", "l", "u", "e", ":", " ">>

\* +s, the conversion of a text of the alphabet (sign, digits, letters,
\* blanks) to a number: blanks around it are dropped, the empty text is 0,
\* the whole text must be a number
toNumber(s) ==
    LET t == trim(s)
        signed == t # <<>> /\ Head(t) \in {"-", "+"}
        negative == signed /\ Head(t) = "-"
        body == IF signed THEN Tail(t) ELSE t
    IN IF t = <<>> THEN Fin(0)
       ELSE IF body = sInfinity THEN (IF negative THEN NegInfinity ELSE Infinity)
       ELSE IF body # <<>> /\ digitsPrefix(body) = body
           THEN Fin(IF negative THEN -digitsValue(body) ELSE digitsValue(body))
       ELSE NaN

parseNum(s) ==
    IF s = sInf THEN Infinity ELSE IF s = sMinusInf THEN NegInfinity ELSE toNumber(s)

\* parseInt on a text of the alphabet: leading blanks, an optional sign and
\* the longest run of digits after it
parseInt(s) ==
    LET t == trimStart(s)
        signed == t # <<>> /\ Head(t) \in {"-", "+"}
        ds == digitsPrefix(IF signed THEN Tail(t) ELSE t)
    IN IF ds = <<>> THEN NaN
       ELSE IF signed /\ Head(t) = "-" THEN Fin(-digitsValue(ds))
       ELSE Fin(digitsValue(ds))

\* a value that stays the text it was
Text(s) == [t |-> "text", s |-> s]

\* known_columns[header] applied to a value, the raw text for other headers
known_columns(header, value) ==
    IF header = sIndex THEN parseInt(value)
    ELSE IF header \in {sLower, sUpper, sPrimal, sDual} THEN parseNum(value)
    ELSE Text(value)

\* the record of the first Len(values) headers: a header met twice keeps the
\* later value
lineRecord(hs, values) ==
    [h \in {hs[k] : k \in 1..Len(values)} |->
        LET last == Max({k \in 1..Len(values) : hs[k] = h})
        IN known_columns(h, values[last])]

\* lineToObj that drops the values beyond the last header
lineToObj_lenient(hs, line) ==
    The({[err |-> "none",
          obj |-> lineRecord(hs, SubSeq(values, 1, Min(Len(values), Len(hs))))] :
            values \in {lineValues(line)}})

lineToObj(hs, line) ==
    The({IF Len(values) > Len(hs)
         THEN [err |-> "Unable to parse solution line", obj |-> EmptyMap]
         ELSE [err |-> "none", obj |-> lineRecord(hs, values)] :
            values \in {lineValues(line)}})

\* the property key obj["Name"] becomes in result["Columns"]
nameKey(obj) == IF has(obj, sName) THEN obj[sName].s ELSE sUndefined

\* line.match(/Objective value: (.+)/): the text of the group of the first
\* match, undefined when the line does not match
objectiveMatch(line) ==
    LET n == Len(sObjective)
        ps == {p \in 0..(Len(line) - n - 1) : SubSeq(line, p + 1, p + n) = sObjective}
        first == CHOOSE p \in ps : \A q \in ps : p <= q
    IN IF ps = {} THEN Undefined ELSE Some(SubSeq(line, first + n + 1, Len(line)))

-----------------------------------------------------------------------------
(* headersForNonEmptyColumns on its own, over all short header lines and   *)
(* data lines and the header line of the solution report.                  *)

\* a header line of the model has at most this many characters
MaxHeaderLen == 4
\* a data line of the model has at most this many characters
MaxDataLen == 5

\* the texts of at most n characters of the alphabet A
Texts(A, n) == UNION {[1..k -> A] : k \in 0..n}

ReportHeader ==
    <<"I", "n", "d", "e", "x", " ", "L", "o", "w", "e", "r", " ", "U", "p", "p", "e",
      "r", " ", "P", "r", "i", "m", "a", "l", " ", "D", "u", "a", "l">>

\* a data line under ReportHeader that ends before the Dual column
ShortDataLine ==
    <<" ", " ", " ", " ", "0", " ", " ", " ", " ", " ", "0", " ", " ", " ", "i", "n",
      "f", " ", " ", " ", " ", " ", " ", "1">>

\* the same line padded with blanks to the width of the header
PaddedDataLine == ShortDataLine \o Spaces(5)

HeaderLines == Texts({" ", "a", "b"}, MaxHeaderLen) \cup {ReportHeader}

DataLines == Texts({" ", "d"}, MaxDataLen) \cup {ShortDataLine, PaddedDataLine}

\* the reader of MPS documents has not been called
MpsIdle ==
    /\ lines = <<>>
    /\ eof = FALSE
    /\ index = 0
    /\ constraintTypes = EmptyMap
    /\ name = <<>>
    /\ objective = Undefined
    /\ constraints = EmptyMap
    /\ variables = EmptyMap
    /\ integers = {}
    /\ binaries = {}
    /\ bounds = EmptyMap
    /\ integerMarked = FALSE
    /\ colName = Undefined
    /\ variable = EmptyMap
    /\ result = Running
    /\ probe = <<>>
    /\ fields = <<>>

InitHeaders ==
    /\ MpsIdle
    /\ ReportIdle
    /\ SolveIdle
    /\ pc = "headers"
    /\ family = "headers"

\* one call of headersForNonEmptyColumns
Infer ==
    /\ pc = "headers"
    /\ \E hl \in HeaderLines, dl \in DataLines :
          /\ headerLine' = hl
          /\ firstDataLine' = dl
          /\ inferred' = headersForNonEmptyColumns(hl, dl)
    /\ pc' = "inferred"
    /\ UNCHANGED <<lines, eof, index, result, family, probe, fields, modelVars,
                   iCol, jRow, headers, solution, outcome, solveVars>>

NextHeaders == Infer

SpecHeaders == InitHeaders /\ [][NextHeaders]_vars

-----------------------------------------------------------------------------
(* parseResult as a state machine over the lines of a report, revealed to  *)
(* the reader as it asks for them.                                         *)

\* at most this many lines in the block a family of reports explores
MaxBlock == 2

ReportFamilies == {"columnBlock", "rowBlock", "ending"}

TitleLine == <<"T">>
NameDual == <<"N", "a", "m", "e", " ", "D", "u", "a", "l">>
IndexName == <<"I", "n", "d", "e", "x", " ", "N", "a", "m", "e">>
\* data lines under NameDual: both cells, a line that ends after the name,
\* a line with a blank Dual cell, a line with three words
BothCells == <<"x", " ", " ", " ", " ", " ", " ", " ", "1">>
EndsEarly == <<"y">>
BlankDual == <<"y", " ", " ", " ", " ", " ", " ", " ", " ">>
ThreeWords == <<"x", " ", "1", " ", "2">>
BlanksOnly == Spaces(2)
Objective5 == sObjective \o <<"5">>
ObjectiveInf == sObjective \o sInf
ObjectiveLate == <<"z", " ">> \o sObjective \o <<"7">>
OtherLine == <<"z", "z">>

\* the lines a report of family f may have as its (n+1)-th line while the
\* reader is at p
ColumnBlockMenu(f, count) ==
    IF f = "columnBlock" THEN
        IF count < MaxBlock
        THEN {BothCells, EndsEarly, BlankDual, ThreeWords, BlanksOnly, <<>>, sRowsLine}
        ELSE {sRowsLine}
    ELSE IF count = 0 THEN {BothCells} ELSE {sRowsLine}

RowBlockMenu(f, count) ==
    IF f = "rowBlock" THEN
        IF count < MaxBlock
        THEN {BothCells, EndsEarly, ThreeWords, BlanksOnly, sRowsLine, <<>>}
        ELSE {<<>>}
    ELSE IF count = 0 THEN {BothCells} ELSE {<<>>}

ReportOffered ==
    LET n == Len(lines)
    IN IF pc = "parseResult" THEN
           IF n = 0 THEN {TitleLine}
           ELSE IF n = 1 THEN
               IF family = "columnBlock" THEN {NameDual, IndexName} ELSE {NameDual}
           ELSE ColumnBlockMenu(family, 0)
       ELSE IF pc = "columns" THEN ColumnBlockMenu(family, n - 2)
       ELSE IF pc = "rowsHeader" THEN
           IF n = iCol + 1
           THEN IF family = "rowBlock" THEN {NameDual, sName, <<>>} ELSE {NameDual}
           ELSE RowBlockMenu(family, 0)
       ELSE IF pc = "rows" THEN RowBlockMenu(family, n - (iCol + 2))
       ELSE IF n < jRow + 3 THEN {OtherLine}
       ELSE IF family = "ending"
           THEN {Objective5, ObjectiveInf, ObjectiveLate, sObjective, OtherLine, <<>>}
       ELSE {Objective5}

\* parseResult cannot proceed on the lines revealed so far
ReportNeedsInput ==
    /\ ~eof
    /\ outcome = "none"
    /\ \/ pc = "parseResult" /\ Len(lines) < 3
       \/ pc = "columns" /\ Len(lines) <= iCol
       \/ pc = "rowsHeader" /\ Len(lines) < iCol + 3
       \/ pc = "rows" /\ Len(lines) <= jRow
       \/ pc = "objective" /\ Len(lines) < jRow + 4

InitReport ==
    /\ MpsIdle
    /\ ReportIdle
    /\ SolveIdle
    /\ pc = "parseResult"
    /\ family \in ReportFamilies

unread == <<index, result, family, probe, fields, modelVars, headerLine, firstDataLine,
            inferred, solveVars>>

\* the next line of the report becomes known
FeedReport ==
    /\ ReportNeedsInput
    /\ \E l \in ReportOffered : lines' = Append(lines, l)
    /\ UNCHANGED <<eof, pc, iCol, jRow, headers, solution, outcome, unread>>

\* the report ends here
CloseReport ==
    /\ ReportNeedsInput
    /\ eof' = TRUE
    /\ UNCHANGED <<lines, pc, iCol, jRow, headers, solution, outcome, unread>>

\* parseResult throws
Fails(kind) ==
    /\ outcome' = kind
    /\ pc' = "done"
    /\ UNCHANGED <<iCol, jRow, headers, solution>>

\* the length check and the headers of the column table
ParseStart ==
    /\ pc = "parseResult"
    /\ outcome = "none"
    /\ Len(lines) >= 3 \/ eof
    /\ IF Len(lines) < 3 THEN Fails("Unable to parse solution. Too few lines.")
       ELSE /\ headers' = headersForNonEmptyColumns(lines[2], lines[3])
            /\ solution' = EmptySolution
            /\ iCol' = 2
            /\ pc' = "columns"
            /\ UNCHANGED <<jRow, outcome>>
    /\ UNCHANGED <<lines, eof, unread>>

\* one iteration of `for (var i = 2; lines[i] != "Rows"; i++)`; past the end
\* lines[i] is undefined and lineToObj fails on it with a TypeError
ParseColumn ==
    /\ pc = "columns"
    /\ iCol < Len(lines) \/ eof
    /\ IF iCol >= Len(lines) THEN Fails("TypeError")
       ELSE IF lines[iCol + 1] = sRowsLine THEN
           /\ pc' = "rowsHeader"
           /\ UNCHANGED <<iCol, jRow, headers, solution, outcome>>
       ELSE LET r == lineToObj(headers, lines[iCol + 1])
            IN IF r.err # "none" THEN Fails(r.err)
               ELSE /\ solution' = [solution EXCEPT !.Columns =
                                        MapSet(solution.Columns, nameKey(r.obj), r.obj)]
                    /\ iCol' = iCol + 1
                    /\ UNCHANGED <<pc, jRow, headers, outcome>>
    /\ UNCHANGED <<lines, eof, unread>>

\* headers = headersForNonEmptyColumns(lines[i + 1], lines[i + 2]): a missing
\* header line, or a missing data line under a header line with a word, is a
\* TypeError
ParseRowsHeader ==
    /\ pc = "rowsHeader"
    /\ Len(lines) >= iCol + 3 \/ eof
    /\ IF Len(lines) < iCol + 2 THEN Fails("TypeError")
       ELSE IF Len(lines) < iCol + 3 /\ matchAll(lines[iCol + 2]) # <<>> THEN Fails("TypeError")
       ELSE /\ headers' = IF Len(lines) < iCol + 3 THEN <<>>
                          ELSE headersForNonEmptyColumns(lines[iCol + 2], lines[iCol + 3])
            /\ jRow' = iCol + 2
            /\ pc' = "rows"
            /\ UNCHANGED <<iCol, solution, outcome>>
    /\ UNCHANGED <<lines, eof, unread>>

\* one iteration of `for (var j = i + 2; lines[j] != ""; j++)`
ParseRow ==
    /\ pc = "rows"
    /\ jRow < Len(lines) \/ eof
    /\ IF jRow >= Len(lines) THEN Fails("TypeError")
       ELSE IF lines[jRow + 1] = <<>> THEN
           /\ pc' = "objective"
           /\ UNCHANGED <<iCol, jRow, headers, solution, outcome>>
       ELSE LET r == lineToObj(headers, lines[jRow + 1])
            IN IF r.err # "none" THEN Fails(r.err)
               ELSE /\ solution' = [solution EXCEPT !.Rows = Append(solution.Rows, r.obj)]
                    /\ jRow' = jRow + 1
                    /\ UNCHANGED <<pc, iCol, headers, outcome>>
    /\ UNCHANGED <<lines, eof, unread>>

\* parseNum(lines[j + 3].match(/Objective value: (.+)/)[1]) and the return
ParseObjective ==
    /\ pc = "objective"
    /\ Len(lines) >= jRow + 4 \/ eof
    /\ IF Len(lines) < jRow + 4 THEN Fails("TypeError")
       ELSE LET m == objectiveMatch(lines[jRow + 4])
            IN IF ~m.defined THEN Fails("TypeError")
               ELSE /\ solution' = [solution EXCEPT !.ObjectiveValue = parseNum(m.text)]
                    /\ outcome' = "Solution"
                    /\ pc' = "done"
                    /\ UNCHANGED <<iCol, jRow, headers>>
    /\ UNCHANGED <<lines, eof, unread>>

NextReport ==
    \/ FeedReport
    \/ CloseReport
    \/ ParseStart
    \/ ParseColumn
    \/ ParseRowsHeader
    \/ ParseRow
    \/ ParseObjective

SpecReport == InitReport /\ [][NextReport]_vars

\* parseResult runs to its end: a call of a synchronous function is not
\* suspended, and the report has an end
SpecReportFair == SpecReport /\ WF_vars(NextReport)

-----------------------------------------------------------------------------
(* Module.solve as a state machine over a sequence of calls. The engine is *)
(* outside the source: each of its entry points returns a HighsStatus or   *)
(* throws, and may print lines to stdout and to stderr on the way.         *)

\* at most this many calls of Module.solve
MaxCalls == 2

\* at most this many entries of highs_options
MaxOptions == 2

\* at most this many lines written by one Highs_writeSolutionPretty
MaxWritten == 3

\* what an engine entry point hands back to assert_ok's fn: a HighsStatus
\* (kOk 0, kWarning 1, kError -1) or an exception
EngineResults == {"kOk", "kWarning", "kError", "exception"}

\* the option values the loop tells apart: typeof and, for a number,
\* whether option_value === (option_value | 0)
OptionValues == {"integer", "double", "boolean", "string", "object"}

typeof(v) == IF v \in {"integer", "double"} THEN "number" ELSE v

OptionLists == UNION {[1..k -> OptionValues] : k \in 0..MaxOptions}

\* a line in a buffer, tagged with the call and the entry point that printed it
Printed(call, by, n) == [k \in 1..n |-> [call |-> call, by |-> by]]

\* the engine's prints of one entry point arrive in the two buffers
EnginePrints(by, most) ==
    \E o \in 0..most, e \in 0..1 :
       /\ stdout_lines' = stdout_lines \o Printed(calls, by, o)
       /\ stderr_lines' = stderr_lines \o Printed(calls, by, e)

\* assert_ok: every result but kOk and kWarning, a caught exception
\* included, is thrown
assert_ok(err) == err \in {"kOk", "kWarning"}

\* setNumericOption: the double setter, then the int setter when that
\* failed and the value is integral
setNumericOption(asDouble, value, asInt) ==
    IF asDouble = "kError" /\ value = "integer" THEN asInt ELSE asDouble

\* Module.solve throws out of the step it is in
Throws ==
    /\ pc' = "idle"
    /\ ended' = "thrown"

solveUnused == <<lines, eof, index, result, family, probe, fields, modelVars, reportVars>>

\* Module.solve is called: the model file is written and an instance created
Solve ==
    /\ pc = "idle"
    /\ calls < MaxCalls
    /\ calls' = calls + 1
    /\ instances' = instances \cup {calls + 1}
    /\ \E given \in OptionLists : options' = given
    /\ handed' = <<>>
    /\ ended' = "none"
    /\ pc' = "readModel"
    /\ UNCHANGED <<stdout_lines, stderr_lines, solveUnused>>

\* assert_ok(Highs_readModel)
ReadModel ==
    /\ pc = "readModel"
    /\ EnginePrints("readModel", 1)
    /\ \E err \in EngineResults :
          IF assert_ok(err)
          THEN /\ pc' = "setOption"
               /\ UNCHANGED ended
          ELSE Throws
    /\ UNCHANGED <<instances, calls, options, handed, solveUnused>>

\* one turn of the loop over the options
SetOption ==
    /\ pc = "setOption"
    /\ options # <<>>
    /\ IF typeof(Head(options)) \notin {"number", "boolean", "string"}
       THEN /\ Throws
            /\ UNCHANGED <<stdout_lines, stderr_lines, options>>
       ELSE /\ EnginePrints("setOption", 1)
            /\ \E first \in EngineResults, second \in EngineResults :
                  LET err == IF typeof(Head(options)) = "number"
                             THEN setNumericOption(first, Head(options), second)
                             ELSE first
                  IN IF assert_ok(err)
                     THEN /\ options' = Tail(options)
                          /\ UNCHANGED <<pc, ended>>
                     ELSE /\ Throws
                          /\ UNCHANGED options
    /\ UNCHANGED <<instances, calls, handed, solveUnused>>

\* assert_ok(_Highs_run), after the last option
Run ==
    /\ pc = "setOption"
    /\ options = <<>>
    /\ EnginePrints("run", 1)
    /\ \E err \in EngineResults :
          IF assert_ok(err)
          THEN /\ pc' = "write"
               /\ UNCHANGED ended
          ELSE Throws
    /\ UNCHANGED <<instances, calls, options, handed, solveUnused>>

\* stdout is emptied, the solution written into it and the instance destroyed
WriteSolution ==
    /\ pc = "write"
    /\ \E o \in 0..MaxWritten, e \in 0..1 :
          /\ stdout_lines' = Printed(calls, "writeSolutionPretty", o)
          /\ stderr_lines' = stderr_lines \o Printed(calls, "writeSolutionPretty", e)
    /\ \E err \in EngineResults :
          IF assert_ok(err)
          THEN /\ instances' = instances \ {calls}
               /\ pc' = "parse"
               /\ UNCHANGED ended
          ELSE /\ Throws
               /\ UNCHANGED instances
    /\ UNCHANGED <<calls, options, handed, solveUnused>>

\* parseResult(stdout_lines, status): fewer than three lines cannot be
\* parsed, a longer report is parsed or not; both buffers are emptied after
\* a Solution came back
Parse ==
    /\ pc = "parse"
    /\ handed' = stdout_lines
    /\ \E parsed \in IF Len(stdout_lines) < 3 THEN {FALSE} ELSE BOOLEAN :
          IF parsed
          THEN /\ stdout_lines' = <<>>
               /\ stderr_lines' = <<>>
               /\ pc' = "idle"
               /\ ended' = "returned"
          ELSE /\ Throws
               /\ UNCHANGED <<stdout_lines, stderr_lines>>
    /\ UNCHANGED <<instances, calls, options, solveUnused>>

InitSolve ==
    /\ MpsIdle
    /\ ReportIdle
    /\ SolveIdle
    /\ pc = "idle"
    /\ family = "solve"

NextSolve ==
    \/ Solve
    \/ ReadModel
    \/ SetOption
    \/ Run
    \/ WriteSolution
    \/ Parse

SpecSolve == InitSolve /\ [][NextSolve]_vars

-----------------------------------------------------------------------------
(* What a document says, read off the lines revealed so far.               *)

\* the non-indented, non-comment lines after the NAME line, without trailing
\* blanks, in document order
Heads(ls) ==
    LET rest == SubSeq(ls, NameIndex(ls) + 2, Len(ls))
        hs == SelectSeq(rest, isHeader)
    IN [i \in 1..Len(hs) |-> trimEnd(hs[i])]

\* the position (1-based) of the last non-indented, non-comment line
LastHeaderPos(ls) ==
    LET hs == {i \in 1..Len(ls) : isHeader(ls[i])}
    IN IF hs = {} THEN 0 ELSE Max(hs)

\* the data lines of the section the document is in, in order
SectionData(ls) == SelectSeq(SubSeq(ls, LastHeaderPos(ls) + 1, Len(ls)), isData)

\* the header sequences of the section grammar
ValidOrders ==
    {<<sROWS, sCOLUMNS, sRHS, sENDATA>>,
     <<sROWS, sCOLUMNS, sRHS, sRANGES, sENDATA>>,
     <<sROWS, sCOLUMNS, sRHS, sBOUNDS, sENDATA>>,
     <<sROWS, sCOLUMNS, sRHS, sRANGES, sBOUNDS, sENDATA>>}

\* the errors a data line can raise
DataErrorKinds ==
    {"Missing row name", "The row was already defined", "Missing row type",
     "Unexpected row type", "Missing coefficient value",
     "The row was not defined in the ROWS section",
     "The coefficient was previously set for this column", "Failed to parse number",
     "Unexpected MARKER", "Missing column name",
     "Values for the column were previously provided", "Missing rhs value",
     "Missing range value", "The column was not defined in the COLUMNS section",
     "Missing bound value", "SC bound type is unsupported", "Missing bound type",
     "Unexpected bound type"}

Finished == pc = "done"

-----------------------------------------------------------------------------
(* C1: section order.                                                      *)

\* C1 as stated: modelFromMps returns a Model only if the headers met after
\* NAME are ROWS, COLUMNS, RHS, [RANGES], [BOUNDS], ENDATA in this order, and
\* every document with a NAME line whose headers are not such a sequence ends
\* with a section-mismatch error.
C1_SectionOrderOriginal ==
    /\ result.kind = "Model" => Heads(lines) \in ValidOrders
    /\ (Finished /\ NameIndex(lines) >= 0 /\ Heads(lines) \notin ValidOrders)
           => result.kind = "Expected section"

\* C1, amended: modelFromMps returns a Model only if the headers met after
\* NAME are ROWS, COLUMNS, RHS, [RANGES], [BOUNDS], ENDATA in this order; a
\* document with a NAME line whose headers are not such a sequence never
\* yields a Model and ends with a section-mismatch error, unless a data line
\* before the offending header was rejected first, in which case the parse
\* ends with that data line's error, raised at that (last read) line.
C1_SectionOrder ==
    /\ result.kind = "Model" => Heads(lines) \in ValidOrders
    /\ (Finished /\ NameIndex(lines) >= 0 /\ Heads(lines) \notin ValidOrders)
           => \/ result.kind = "Expected section"
              \/ /\ result.kind \in DataErrorKinds
                 /\ isData(lines[Len(lines)])
                 /\ result.line = Len(lines)

\* BOUNDS before RANGES is met and refused
C1_Witness ==
    /\ result.kind = "Expected section"
    /\ Heads(lines) = <<sROWS, sCOLUMNS, sRHS, sBOUNDS, sRANGES>>

-----------------------------------------------------------------------------
(* C2: LO / UP pairs in BOUNDS.                                            *)

RECURSIVE LastBound(_, _, _, _)
\* the value of the last entry of `entries` for column col whose type is in
\* `types`, `default` when there is none
LastBound(entries, col, types, default) ==
    IF entries = <<>> THEN default
    ELSE LET e == entries[Len(entries)]
         IN IF field3(e) = col /\ field1(e) \in types THEN parseFloat(field4(e))
            ELSE LastBound(SubSeq(entries, 1, Len(entries) - 1), col, types, default)

\* C2: an LO or LI entry changes only the lower component of the column's
\* pair and an UP or UI entry only the upper component: in a returned Model,
\* a column whose BOUNDS entries are all of type LO, UP, LI or UI has the
\* pair (value of its last LO/LI entry, or 0; value of its last UP/UI entry,
\* or +Infinity); so LO a and UP b, in either order, give (a, b).
C2_LoUpIndependent ==
    (result.kind = "Model" /\ Heads(lines)[Len(Heads(lines)) - 1] = sBOUNDS) =>
        LET es == SectionData(SubSeq(lines, 1, Len(lines) - 1))
        IN \A col \in DOMAIN bounds :
              (\A i \in 1..Len(es) :
                  field3(es[i]) = col => field1(es[i]) \in {sLO, sUP, sLI, sUI})
              => bounds[col] = <<LastBound(es, col, {sLO, sLI}, Fin(0)),
                                 LastBound(es, col, {sUP, sUI}, Infinity)>>

-----------------------------------------------------------------------------
(* C3: the field windows.                                                  *)

\* the characters of `line` at the 0-based positions a .. b-1 that exist
Window(line, a, b) ==
    [i \in 1..(IF Len(line) > a THEN Min(b, Len(line)) - a ELSE 0) |-> line[a + i]]

\* s from its first to its last non-blank character
Trimmed(s) ==
    LET nb == {i \in 1..Len(s) : s[i] # " "}
    IN IF nb = {} THEN <<>>
       ELSE SubSeq(s, CHOOSE i \in nb : \A j \in nb : i <= j, Max(nb))

\* C3 as stated: the six fields are the trimmed windows [1,3), [3,11),
\* [13,21), [23,35), [38,46), [48,60) of the line.
C3_FieldWindowsOriginal ==
    pc = "extracted" =>
        fields = <<Trimmed(Window(probe, 1, 3)), Trimmed(Window(probe, 3, 11)),
                   Trimmed(Window(probe, 13, 21)), Trimmed(Window(probe, 23, 35)),
                   Trimmed(Window(probe, 38, 46)), Trimmed(Window(probe, 48, 60))>>

\* C3, amended: the six fields are the trimmed windows [1,3), [4,12),
\* [14,22), [24,36), [39,47), [49,61) of the line (0-based, half-open); a
\* line that ends before a field's window starts yields the empty string
\* for that field.
C3_FieldWindows ==
    pc = "extracted" =>
        /\ fields = <<Trimmed(Window(probe, 1, 3)), Trimmed(Window(probe, 4, 12)),
                      Trimmed(Window(probe, 14, 22)), Trimmed(Window(probe, 24, 36)),
                      Trimmed(Window(probe, 39, 47)), Trimmed(Window(probe, 49, 61))>>
        /\ \A k \in 1..6 :
              Len(probe) <= <<1, 4, 14, 24, 39, 49>>[k] => fields[k] = <<>>

\* a line of 12 characters whose last character is the last of field 2, and
\* which ends before field 3 starts
C3_Witness ==
    /\ pc = "extracted"
    /\ Len(probe) = 12
    /\ probe[5] = "x"
    /\ probe[12] = "y"
    /\ fields[2] = <<"x", " ", " ", " ", " ", " ", " ", "y">>
    /\ fields[3] = <<>>

-----------------------------------------------------------------------------
(* C4: comment lines.                                                      *)

\* C4: a comment line is never visible to a section parser: no line that
\* starts with '*' is ever read as a section header, so the header text a
\* section-mismatch error reports is never a comment line.
C4_CommentsInvisible ==
    (result.kind = "Expected section" /\ result.actual.defined)
        => ~isComment(result.actual.text)

-----------------------------------------------------------------------------
(* C5, C6, C7: RHS and RANGES.                                             *)

\* the (row, value) pairs of a line of RHS or RANGES: fields (3,4), then
\* fields (5,6) when either is present
Pairs(line) ==
    IF field5(line) # <<>> \/ field6(line) # <<>>
    THEN <<<<field3(line), field4(line)>>, <<field5(line), field6(line)>>>>
    ELSE <<<<field3(line), field4(line)>>>>

RECURSIVE AllPairs(_)
AllPairs(ls) == IF ls = <<>> THEN <<>> ELSE Pairs(Head(ls)) \o AllPairs(Tail(ls))

\* the effect C5 states for one pair of RANGES
RangeClaim(cons, ct, pair) ==
    LET row == pair[1]
        v == parseFloat(pair[2])
        r == Abs(v)
        lo == cons[row][1]
        hi == cons[row][2]
        type == ct[row]
    IN IF type = sL THEN MapSet(cons, row, <<Sub(hi, r), hi>>)
       ELSE IF type = sG THEN MapSet(cons, row, <<lo, Add(lo, r)>>)
       ELSE IF type = sE /\ Lt(Fin(0), v) THEN MapSet(cons, row, <<lo, Add(lo, r)>>)
       ELSE IF type = sE /\ Lt(v, Fin(0)) THEN MapSet(cons, row, <<Sub(hi, r), hi>>)
       ELSE cons

RECURSIVE RangesClaim(_, _, _)
RangesClaim(cons, ct, pairs) ==
    IF pairs = <<>> THEN cons
    ELSE RangesClaim(RangeClaim(cons, ct, Head(pairs)), ct, Tail(pairs))

\* the document of C5's example: an E row a with RHS 10 and one range v
RangeExample(v) ==
    <<NameLine, sROWS, RowLine(sE, ta), sCOLUMNS, sRHS, RhsLine(ta, n10), sRANGES,
      RhsLine(ta, v)>>

\* C5: every accepted line of RANGES changes the constraints as stated, pair
\* by pair: with r = |value| and (lo, hi) the row's pair, type L sets
\* lo := hi - r, type G sets hi := lo + r, type E sets hi := lo + r when
\* value > 0 and lo := hi - r when value < 0 and nothing when value = 0, type
\* N nothing; and an E row with RHS 10 ends as (10, 14) for range +4 and as
\* (6, 10) for range -4.
C5_Ranges ==
    [][/\ (pc = "readRanges" /\ pc' = "readRanges" /\ index' # index) =>
             constraints' = RangesClaim(constraints, constraintTypes,
                                        Pairs(lines[index' + 1]))
       /\ (index' = 7 /\ lines' = RangeExample(n4)) =>
             constraints'[ta] = <<Fin(10), Fin(14)>>
       /\ (index' = 7 /\ lines' = RangeExample(m4)) =>
             constraints'[ta] = <<Fin(6), Fin(10)>>]_vars

C5_Witness ==
    /\ lines = RangeExample(m4)
    /\ index = 7
    /\ pc = "readRanges"
    /\ constraints[ta] = <<Fin(6), Fin(10)>>

RECURSIVE LastValue(_, _)
\* the value of the last pair that names `row`, 0 when there is none
LastValue(pairs, row) ==
    IF pairs = <<>> THEN Fin(0)
    ELSE IF pairs[Len(pairs)][1] = row THEN parseFloat(pairs[Len(pairs)][2])
    ELSE LastValue(SubSeq(pairs, 1, Len(pairs) - 1), row)

\* the data lines of the current section the cursor has passed
Consumed == SectionData(SubSeq(lines, 1, Min(index + 1, Len(lines))))

illFormedPair(pair) ==
    \/ pair[1] = <<>>
    \/ pair[2] = <<>>
    \/ ~has(constraintTypes, pair[1])
    \/ isNaN(parseFloat(pair[2]))

\* C6: while RHS is read, after every accepted line, an L row is (-inf, v),
\* a G row is (v, +inf), an E row is (v, v) and an N row is (-inf, +inf),
\* where v is the value of the last RHS pair naming the row so far (0 if
\* none): L changes only the upper bound, G only the lower, E both, N
\* nothing, the last entry wins; and RHS raises an error only for a line
\* with an ill-formed pair, never for a repeated row.
C6_Rhs ==
    /\ (pc = "readRHS" /\ result = Running) =>
          \A row \in DOMAIN constraintTypes :
              LET v == LastValue(AllPairs(Consumed), row)
                  type == constraintTypes[row]
              IN constraints[row] =
                     IF type = sL THEN <<NegInfinity, v>>
                     ELSE IF type = sG THEN <<v, Infinity>>
                     ELSE IF type = sE THEN <<v, v>>
                     ELSE <<NegInfinity, Infinity>>
    /\ (Finished /\ result.kind \in DataErrorKinds
            /\ Heads(lines) = <<sROWS, sCOLUMNS, sRHS>>) =>
          \E i \in 1..Len(Pairs(lines[Len(lines)])) :
              illFormedPair(Pairs(lines[Len(lines)])[i])

\* an E row named twice on one RHS line has the second value on both sides
C6_Witness ==
    /\ pc = "readRHS"
    /\ result = Running
    /\ index + 1 = Len(lines)
    /\ lines[Len(lines)] = RhsLine2(ta, n10, ta, n4)
    /\ has(constraintTypes, ta)
    /\ constraintTypes[ta] = sE
    /\ constraints[ta] = <<Fin(4), Fin(4)>>

\* C7: in every returned Model every constraint has lower <= upper.
C7_LowerLeqUpper ==
    result.kind = "Model" =>
        \A row \in DOMAIN constraints : Leq(constraints[row][1], constraints[row][2])

\* a Model of a document with RHS -4 on an E row and ranges of both signs
C7_Witness ==
    /\ result.kind = "Model"
    /\ has(constraintTypes, ta)
    /\ constraintTypes[ta] = sE
    /\ \E i, j \in 1..Len(lines) :
          /\ i < j
          /\ lines[i] = RhsLine2(ta, n4, ta, m4)
          /\ lines[j] = RhsLine(ta, m4)
          /\ Heads(SubSeq(lines, 1, i)) = <<sROWS, sCOLUMNS, sRHS, sRANGES>>

-----------------------------------------------------------------------------
(* C8: the lines of one column are consecutive.                            *)

\* the data lines of COLUMNS before the last line of the document name
\* column c in a run of lines that has ended: a coefficient line of c is
\* followed by a line with another name
EarlierEnded(c) ==
    LET ds == SectionData(SubSeq(lines, 1, Len(lines) - 1))
    IN \E i, j \in 1..Len(ds) :
          /\ i < j
          /\ field2(ds[i]) = c
          /\ field3(ds[i]) # sMARKER
          /\ field2(ds[j]) # c

\* the last line of the document is a coefficient line of COLUMNS that the
\* reader has reached
LastIsColumnLine ==
    /\ NameIndex(lines) >= 0
    /\ Heads(lines) = <<sROWS, sCOLUMNS>>
    /\ ~eof
    /\ index + 1 = Len(lines)
    /\ isData(lines[Len(lines)])
    /\ field3(lines[Len(lines)]) # sMARKER

NonConsecutive == "Values for the column were previously provided"

\* C8: a coefficient line of COLUMNS that names a column of an earlier,
\* ended run of lines is refused with the non-consecutive-column error at
\* the 1-based number of that line, and this error is raised for no other
\* line: never for a line that continues the run of its column or that
\* names a column for the first time.
C8_Consecutive ==
    /\ (LastIsColumnLine /\ pc \in {"readColumns", "done"}
            /\ EarlierEnded(field2(lines[Len(lines)])))
           => (result.kind = NonConsecutive /\ result.line = Len(lines))
    /\ result.kind = NonConsecutive
           => (LastIsColumnLine /\ EarlierEnded(field2(lines[Len(lines)])))

\* x, a MARKER line, x again: refused at the third line of COLUMNS
C8_Witness ==
    /\ result.kind = NonConsecutive
    /\ Len(lines) >= 3
    /\ field2(lines[Len(lines) - 2]) = tx
    /\ field3(lines[Len(lines) - 1]) = sMARKER
    /\ field2(lines[Len(lines)]) = tx
    /\ result.line = Len(lines)

-----------------------------------------------------------------------------
(* C9: the end of the input where a header is expected.                    *)

\* C9: when the input ends where a section header is expected after the
\* data lines of ROWS, COLUMNS, RHS, RANGES or BOUNDS, the section-mismatch
\* error reports "end of file" (an undefined `actual`), not a line's text.
C9_EndOfFile ==
    (eof /\ result.kind = "Expected section" /\ result.expected # "ROWS")
        => ~result.actual.defined

-----------------------------------------------------------------------------
(* C10: the line number of a data-line error.                              *)

BoundTypes == {sLO, sUP, sFX, sFR, sMI, sPL, sBV, sLI, sUI, sSC}

\* line l, the n-th of the document, in the section with header sec, has the
\* field that error `kind` complains about
Offending(kind, l, n, sec) ==
    IF kind = "Missing row name" THEN
        IF sec = sROWS THEN field2(l) = <<>>
        ELSE field3(l) = <<>> \/ (field5(l) = <<>> /\ field6(l) # <<>>)
    ELSE IF kind = "The row was already defined" THEN
        /\ sec = sROWS
        /\ \E i \in 1..(n - 1) : isData(lines[i]) /\ field2(lines[i]) = field2(l)
    ELSE IF kind = "Missing row type" THEN sec = sROWS /\ field1(l) = <<>>
    ELSE IF kind = "Unexpected row type" THEN
        sec = sROWS /\ field1(l) \notin {sL, sG, sE, sN, <<>>}
    ELSE IF kind \in {"Missing coefficient value", "Missing rhs value",
                      "Missing range value"} THEN
        /\ sec = (IF kind = "Missing coefficient value" THEN sCOLUMNS
                  ELSE IF kind = "Missing rhs value" THEN sRHS ELSE sRANGES)
        /\ field4(l) = <<>> \/ (field6(l) = <<>> /\ field5(l) # <<>>)
    ELSE IF kind = "The row was not defined in the ROWS section" THEN
        ~has(constraintTypes, field3(l)) \/ ~has(constraintTypes, field5(l))
    ELSE IF kind = "The coefficient was previously set for this column" THEN
        /\ sec = sCOLUMNS
        /\ \/ field3(l) = field5(l)
           \/ \E i \in 1..(n - 1) :
                 /\ isData(lines[i])
                 /\ field2(lines[i]) = field2(l)
                 /\ {field3(lines[i]), field5(lines[i])} \cap {field3(l), field5(l)}
                        # {}
    ELSE IF kind = "Failed to parse number" THEN
        isNaN(parseFloat(field4(l))) \/ isNaN(parseFloat(field6(l)))
    ELSE IF kind = "Unexpected MARKER" THEN
        sec = sCOLUMNS /\ field3(l) = sMARKER /\ field4(l) \notin {sINTORG, sINTEND}
    ELSE IF kind = "Missing column name" THEN
        IF sec = sCOLUMNS THEN field2(l) = <<>> ELSE sec = sBOUNDS /\ field3(l) = <<>>
    ELSE IF kind = NonConsecutive THEN
        /\ sec = sCOLUMNS
        /\ \E i \in 1..(n - 1) : isData(lines[i]) /\ field2(lines[i]) = field2(l)
    ELSE IF kind = "The column was not defined in the COLUMNS section" THEN
        sec = sBOUNDS /\ ~has(variables, field3(l))
    ELSE IF kind = "Missing bound value" THEN
        sec = sBOUNDS /\ field4(l) = <<>> /\ field1(l) \in {sLO, sUP, sFX, sLI, sUI}
    ELSE IF kind = "SC bound type is unsupported" THEN sec = sBOUNDS /\ field1(l) = sSC
    ELSE IF kind = "Missing bound type" THEN sec = sBOUNDS /\ field1(l) = <<>>
    ELSE IF kind = "Unexpected bound type" THEN
        sec = sBOUNDS /\ field1(l) \notin BoundTypes \cup {<<>>}
    ELSE FALSE

\* C10: the 'Line N' of every error raised for a malformed data line is the
\* 1-based index, among all physical lines (comment lines and the lines
\* before NAME included), of the data line that holds the offending field,
\* which is the last line read; a ROWS line with an empty type field fails
\* with the missing-row-type error at its own number.
C10_ErrorLine ==
    result.kind \in DataErrorKinds =>
        /\ result.line = Len(lines)
        /\ result.line >= 1
        /\ isData(lines[result.line])
        /\ Offending(result.kind, lines[result.line], result.line,
                     Heads(lines)[Len(Heads(lines))])

\* a ROWS line without type, after a line before NAME and a comment line
C10_Witness ==
    /\ result.kind = "Missing row type"
    /\ Len(lines) = 5
    /\ lines[1] = JunkLine
    /\ lines[4] = CommentLine
    /\ lines[5] = RowLine(no, ta)
    /\ result.line = 5

-----------------------------------------------------------------------------
(* C11: the objective is the first N row.                                  *)

\* the step consumes a data line as reader p
Consumes(p) == pc = p /\ index' # index /\ isData(lines[index' + 1])

\* C11: once the first N row of ROWS has been read, model.objective is that
\* row's name and no later step changes it; every N row with a fresh name,
\* the first or a later one, is accepted (the parse goes on), is given the
\* pair (-Infinity, +Infinity) in model.constraints and is registered with
\* type N; no line that is not an N row of ROWS touches the objective.
C11_FirstObjective ==
    [][/\ objective.defined => objective' = objective
       /\ Consumes("readRows") =>
             LET l == lines[index' + 1]
                 nm == field2(l)
             IN /\ (field1(l) = sN /\ nm # <<>> /\ ~has(constraintTypes, nm)) =>
                      /\ result' = Running
                      /\ objective' = IF objective.defined THEN objective ELSE Some(nm)
                      /\ has(constraints', nm)
                      /\ constraints'[nm] = <<NegInfinity, Infinity>>
                      /\ constraintTypes'[nm] = sN
                /\ field1(l) # sN => objective' = objective
       /\ ~Consumes("readRows") => objective' = objective]_vars

\* a Model of a document with the N rows a and b, in this order
C11_Witness ==
    /\ result.kind = "Model"
    /\ objective = Some(ta)
    /\ has(constraintTypes, tb)
    /\ constraintTypes[tb] = sN
    /\ constraints[tb] = <<NegInfinity, Infinity>>

-----------------------------------------------------------------------------
(* C12: UP entries of BOUNDS.                                              *)

\* the data lines of BOUNDS that have been accepted when reader p has the
\* cursor at idx (in a returned Model the cursor is on ENDATA)
BoundEntries(ls, idx, p) ==
    IF p = "readBounds" THEN SectionData(SubSeq(ls, 1, Min(idx + 1, Len(ls))))
    ELSE SectionData(SubSeq(ls, 1, Min(idx, Len(ls))))

\* the entries of es that name column col
EntriesOf(es, col) == SelectSeq(es, LAMBDA e : field3(e) = col)

\* C12 for the accepted entries es and the bounds they led to
UpOnly(es, bnds, vs) ==
    \A col \in DOMAIN vs :
        LET ces == EntriesOf(es, col)
        IN /\ (Len(ces) = 1 /\ field1(ces[1]) = sUP) =>
                 (has(bnds, col) /\ bnds[col] = <<Fin(0), parseFloat(field4(ces[1]))>>)
           /\ has(bnds, col) <=> \E k \in 1..Len(ces) : field1(ces[k]) # sBV

\* C12: while BOUNDS is read and in the Model returned after it, a column
\* whose only BOUNDS entry is UP v has the pair (0, v), also for negative v;
\* a column has an entry in model.bounds exactly if a BOUNDS entry of a type
\* other than BV names it; and right after an accepted UP entry the lower
\* bound of its column is 0, never below.
C12_UpOnly ==
    [][/\ (pc' = "readBounds" /\ result' = Running)
            \/ (pc = "readBounds" /\ result'.kind = "Model")
          => UpOnly(BoundEntries(lines', index', pc'), bounds', variables')
       /\ (Consumes("readBounds") /\ result' = Running
              /\ field1(lines[index' + 1]) = sUP)
          => bounds'[field3(lines[index' + 1])][1] = Fin(0)]_vars

\* a Model of a document whose only BOUNDS entry is UP -4 for column x
C12_Witness ==
    /\ result.kind = "Model"
    /\ Heads(lines) = <<sROWS, sCOLUMNS, sRHS, sBOUNDS, sENDATA>>
    /\ BoundEntries(lines, index, pc) = <<BoundLine(sUP, tx, m4)>>
    /\ has(bounds, tx)
    /\ bounds[tx] = <<Fin(0), Fin(-4)>>
    /\ ~has(bounds, ty)

-----------------------------------------------------------------------------
(* C14: integer and binary columns.                                        *)

\* the data lines of the section with header h (the lines between the first
\* header h and the next header)
SectionLines(ls, h) ==
    LET hs == {i \in 1..Len(ls) : isHeader(ls[i]) /\ trimEnd(ls[i]) = h}
        a == CHOOSE i \in hs : \A k \in hs : i <= k
        rest == {i \in (a + 1)..Len(ls) : isHeader(ls[i])}
        b == IF rest = {} THEN Len(ls) + 1 ELSE CHOOSE i \in rest : \A k \in rest : i <= k
    IN IF hs = {} THEN <<>> ELSE SelectSeq(SubSeq(ls, a + 1, b - 1), isData)

\* in the data lines ds of COLUMNS, the most recent MARKER line before the
\* end of the run of lines of column col is 'INTORG'
MarkedAtCommit(ds, col) ==
    LET run == {i \in 1..Len(ds) : field2(ds[i]) = col /\ field3(ds[i]) # sMARKER}
        ms == {i \in 1..Max(run) : field3(ds[i]) = sMARKER}
    IN run # {} /\ ms # {} /\ field4(ds[Max(ms)]) = sINTORG

\* an entry of BOUNDS with a type of `types` names column col
NamedBy(es, col, types) ==
    \E k \in 1..Len(es) : field3(es[k]) = col /\ field1(es[k]) \in types

C14_WitnessBV ==
    /\ result.kind = "Model"
    /\ tx \in binaries
    /\ integers = {ty}
    /\ ~has(bounds, tx)

-----------------------------------------------------------------------------
(* C17: referential integrity of the builder.                              *)

\* C17: after every consumed line and in every returned Model, the rows of
\* constraintTypes are the rows of model.constraints; every row with a
\* coefficient in model.variables (or in the run of lines in progress) is a
\* declared row; every name in model.integers, model.binaries and
\* model.bounds is a column of model.variables; and model.objective, when
\* set, is a declared row of type N.
C17_Integrity ==
    /\ DOMAIN constraintTypes = DOMAIN constraints
    /\ \A col \in DOMAIN variables : DOMAIN variables[col] \subseteq DOMAIN constraintTypes
    /\ DOMAIN variable \subseteq DOMAIN constraintTypes
    /\ integers \subseteq DOMAIN variables
    /\ binaries \subseteq DOMAIN variables
    /\ DOMAIN bounds \subseteq DOMAIN variables
    /\ objective.defined =>
          (has(constraintTypes, objective.text) /\ constraintTypes[objective.text] = sN)

\* a Model with an objective, coefficients, an integer column, a binary
\* column and a bound pair
C17_Witness ==
    /\ result.kind = "Model"
    /\ objective.defined
    /\ \E col \in DOMAIN variables : DOMAIN variables[col] # {}
    /\ integers # {}
    /\ binaries # {}
    /\ DOMAIN bounds # {}

-----------------------------------------------------------------------------
(* C19: the cursor.                                                        *)

\* C19: once readName has positioned the cursor, the index never decreases,
\* strictly increases each time a data line is consumed, and only ever rests
\* on a non-comment line within the line array, or one past the end directly
\* after NAME.
C19_Cursor ==
    [][/\ pc # "readName" => index' >= index
       /\ (\E p \in {"readRows", "readColumns", "readRHS", "readRanges", "readBounds"} :
              Consumes(p)) => index' > index
       /\ (pc' # "readName" /\ NameIndex(lines') >= 0) =>
             \/ index' < Len(lines') /\ ~isComment(lines'[index' + 1])
             \/ index' = Len(lines') /\ index' = NameIndex(lines') + 1]_vars

-----------------------------------------------------------------------------
(* C13: the headers of the non-empty columns.                              *)

\* the data line has a character other than a blank at the 0-based position k
DataAt(dl, k) == k < Len(dl) /\ dl[k + 1] # " "

\* C13: headersForNonEmptyColumns returns, in header order, exactly the
\* words of the header line for which the data line has a non-blank
\* character below the word's first or last position; for data lines of any
\* length, also one that ends before the word's span, where the data line
\* has no character, and so no data, below the word.
C13_NonEmptyColumns ==
    pc = "inferred" =>
        LET ms == matchAll(headerLine)
            kept == SelectSeq(ms, LAMBDA m : \/ DataAt(firstDataLine, m.index)
                                             \/ DataAt(firstDataLine,
                                                       m.index + Len(m.text) - 1))
        IN inferred = [k \in 1..Len(kept) |-> kept[k].text]

-----------------------------------------------------------------------------
(* C15: the blocks of a report.                                            *)

\* the line of the report at the 0-based index k
LineAt(k) == lines[k + 1]

\* the 0-based index of the first line at or after `from` that satisfies
\* Test, -1 when there is none
FirstLine(from, Test(_)) ==
    LET found == {k \in from..(Len(lines) - 1) : Test(LineAt(k))}
    IN IF found = {} THEN -1 ELSE CHOOSE k \in found : \A q \in found : k <= q

\* a line with no non-whitespace character
isBlank(line) == \A k \in 1..Len(line) : line[k] = " "

RECURSIVE ColumnsOf(_, _, _)
\* result["Columns"] after the lines a .. b (0-based) were decoded with hs
ColumnsOf(hs, a, b) ==
    IF b < a THEN EmptyMap
    ELSE LET obj == lineToObj(hs, LineAt(b)).obj
         IN MapSet(ColumnsOf(hs, a, b - 1), nameKey(obj), obj)

\* result["Rows"] when the lines a .. b (0-based) were decoded with hs
RowsOf(hs, a, b) ==
    [k \in 1..(b - a + 1) |-> lineToObj(hs, LineAt(a + k - 1)).obj]

\* C15: in a returned Solution, with i the first line 'Rows' at index >= 2
\* and j the first blank line (no non-whitespace character) at index >= i+2,
\* Columns holds exactly the lines 2 .. i-1 decoded with the headers inferred
\* from lines 1 and 2, Rows holds exactly the lines i+2 .. j-1, in order,
\* decoded with the headers inferred from lines i+1 and i+2, the row block
\* stopped at line j, and the objective value was read from line j+3.
C15_Blocks ==
    outcome = "Solution" =>
        LET iRows == FirstLine(2, LAMBDA l : l = sRowsLine)
            jBlank == FirstLine(iRows + 2, isBlank)
        IN /\ iRows >= 2
           /\ jBlank >= iRows + 2
           /\ iCol = iRows
           /\ jRow = jBlank
           /\ solution.Columns
                 = ColumnsOf(headersForNonEmptyColumns(LineAt(1), LineAt(2)), 2, iRows - 1)
           /\ solution.Rows
                 = RowsOf(headersForNonEmptyColumns(LineAt(iRows + 1), LineAt(iRows + 2)),
                          iRows + 2, jBlank - 1)
           /\ jBlank + 3 < Len(lines)
           /\ objectiveMatch(LineAt(jBlank + 3)).defined
           /\ solution.ObjectiveValue = parseNum(objectiveMatch(LineAt(jBlank + 3)).text)

-----------------------------------------------------------------------------
(* C20: parseResult ends, and returns a Solution only of a whole report.   *)

\* the lines a .. b (0-based) have no more words than hs has headers
Fits(hs, a, b) == \A k \in a..b : Len(lineValues(LineAt(k))) <= Len(hs)

\* what a returned Solution tells about the report: the column block ended
\* at a line 'Rows', the row block at a blank line, the line three lines
\* after it matches 'Objective value: ', and no decoded line has more words
\* than headers were inferred for its block
WholeReport ==
    /\ iCol >= 2
    /\ iCol < Len(lines)
    /\ LineAt(iCol) = sRowsLine
    /\ \A k \in 2..(iCol - 1) : LineAt(k) # sRowsLine
    /\ jRow >= iCol + 2
    /\ jRow < Len(lines)
    /\ isBlank(LineAt(jRow))
    /\ jRow + 3 < Len(lines)
    /\ objectiveMatch(LineAt(jRow + 3)).defined
    /\ Fits(headersForNonEmptyColumns(LineAt(1), LineAt(2)), 2, iCol - 1)
    /\ Fits(headers, iCol + 2, jRow - 1)

\* parseResult has ended, with a Solution or an error, its indices within
\* the lines, and with a Solution only of a whole report
EndedWell ==
    /\ pc = "done"
    /\ outcome # "none"
    /\ iCol <= Len(lines)
    /\ jRow <= Len(lines)
    /\ outcome = "Solution" => WholeReport

\* C20: parseResult ends on every report, with a Solution or an error; its
\* indices never pass the end of the lines (they only grow, so their final
\* values bound them); and it returns a Solution only when the 'Rows' line,
\* the blank line that ends the row block and the 'Objective value:' line
\* three lines after it are there and no decoded line has more words than
\* headers: in every other case the call fails with an error.
C20_Terminates == <>EndedWell

\* the report ended without a line 'Rows': the column loop ran to the end
\* of the lines and failed there
C20_Witness ==
    /\ eof
    /\ Len(lines) >= 4
    /\ FirstLine(2, LAMBDA l : l = sRowsLine) = -1
    /\ iCol = Len(lines)
    /\ outcome = "TypeError"

\* the lines handed to parseResult were all printed by this call's
\* Highs_writeSolutionPretty
HandedOwnLines ==
    \A k \in 1..Len(handed) :
       handed[k] = [call |-> calls, by |-> "writeSolutionPretty"]

\* C16: over every sequence of Module.solve calls, the lines handed to
\* parseResult in a call are only lines written by that call's
\* Highs_writeSolutionPretty, and once a call has ended, returned or thrown,
\* the stdout and the stderr line buffers are empty.
C16_BuffersCleared ==
    /\ HandedOwnLines
    /\ (pc = "idle" /\ ended # "none") => (stdout_lines = <<>> /\ stderr_lines = <<>>)

\* C18: every Highs instance created by Module.solve is destroyed before
\* that call ends, whether it returns or throws: between calls no created
\* instance is left undestroyed.
C18_Destroyed == pc = "idle" => instances = {}

====
